---- MODULE Spec2Model ----
(***************************************************************************)
(* Model of the pyrak811 serial layer (rak811/serial.py): the background   *)
(* reader thread, the condition-variable guarded read buffer and the       *)
(* blocking receive() used by the protocol classes (rak811/rak811.py and   *)
(* rak811/rak811_v3.py).                                                   *)
(*                                                                         *)
(* A line is a sequence of one-character strings; "xDE" stands for one     *)
(* non-ASCII byte and "x0B" for the vertical tab.  Raw lines on the        *)
(* transport end with CR LF.  A method of the protocol classes runs in     *)
(* steps: it writes its command, blocks in receive() while the reader and  *)
(* the module run, and goes on with the lines receive() hands it.          *)
(***************************************************************************)
EXTENDS Integers, Sequences, FiniteSets, TLC

\* ------------------------------------------------------------------------
\* Bounds of the model
\* ------------------------------------------------------------------------
MaxEmit == 3
MaxCalls == 3
MaxClose == 2
MaxOps == 2

\* the foreground threads that call receive()
Callers == {"c1", "c2"}

\* ------------------------------------------------------------------------
\* Program constants
\* ------------------------------------------------------------------------
\* serial.py: EOL = '\r\n' (used as the character set of rstrip)
EOL == <<"\r", "\n">>
\* serial.py: line = '?' on UnicodeDecodeError
SENTINEL == <<"?">>
\* rak811.py: RESPONSE_OK / RESPONSE_ERROR / RESPONSE_EVENT
RESPONSE_OK == <<"O", "K">>
RESPONSE_ERROR == <<"E", "R", "R", "O", "R">>
RESPONSE_EVENT == <<"a", "t", "+", "r", "e", "c", "v", "=">>

\* bytes that bytes.decode('ascii') rejects
NonAscii == {"xDE"}

\* ------------------------------------------------------------------------
\* Raw lines the module may put on the wire
\* ------------------------------------------------------------------------
RawOK == <<"O", "K", "\r", "\n">>
RawOK0 == <<"O", "K", "0", "\r", "\n">>
RawErr == <<"E", "R", "R", "O", "R", "-", "1", "\r", "\n">>
RawEvt == <<"a", "t", "+", "r", "e", "c", "v", "=", "2", ",", "0", ",", "0", "\r", "\n">>
RawBanner == <<"W", "e", "l", "c", "o", "m", "e", "\r", "\n">>
RawBlank == <<"\r", "\n">>
RawAttn == <<"a", "t", "t", "n", "\r", "\n">>
RawGarbage == <<"O", "K", "xDE", "\r", "\n">>
\* rak811.py (tests/test_rak811.py): a received-data event
RawEvtData == <<"a", "t", "+", "r", "e", "c", "v", "=", "0", ",", "1", ",", "0", ",", "0", ",", "1", ",", "5", "5", "\r", "\n">>
\* rak811_v3.py (tests/test_rak811_v3.py): response, error, event
RawOKV3 == <<"O", "K", " ", "V", "3", "\r", "\n">>
RawErrV3 == <<"E", "R", "R", "O", "R", ":", " ", "2", "\r", "\n">>
RawEvtV3 == <<"a", "t", "+", "r", "e", "c", "v", "=", "1", ",", "-", "6", "5", ",", "6", ",", "2", ":", "4", "8", "6", "5", "\r", "\n">>

\* rak811.py: an event with a failure status; rak811_v3.py: the reply to a restart
RawEvtNoData == <<"a", "t", "+", "r", "e", "c", "v", "=", "1", ",", "-", "6", "5", ",", "6", ",", "2", "\r", "\n">>
RawEvtFail == <<"a", "t", "+", "r", "e", "c", "v", "=", "3", ",", "0", ",", "0", "\r", "\n">>
RawEvtShort == <<"a", "t", "+", "r", "e", "c", "v", "=", "0", ",", "1", ",", "1", ",", "5", "5", "\r", "\n">>
RawEvtAck == <<"a", "t", "+", "r", "e", "c", "v", "=", "0", ",", "2", ",", "-", "3", ",", "4", ",", "0", "\r", "\n">>
RawEvtTx == <<"a", "t", "+", "r", "e", "c", "v", "=", "1", ",", "0", ",", "0", "\r", "\n">>
RawInitOK == <<"I", "n", "i", "t", "i", "a", "l", "i", "z", "a", "t", "i", "o", "n", " ", "O", "K", " ", "\r", "\n">>
\* an error whose code follows a form feed; an event whose data has a space
\* between the bytes
RawErrFF == <<"E", "R", "R", "O", "R", "\f", "5", "\r", "\n">>
RawEvtSp == <<"a", "t", "+", "r", "e", "c", "v", "=", "1", ",", "-", "6", "5", ",", "6", ",", "2", ":", "4", "8", " ", "6", "5", "\r", "\n">>

\* rak811.py (tests/test_rak811.py): the reply to rf_config, the event that
\* ends a txc
RawOKCfg == <<"O", "K", "8", "6", "8", "1", "0", "0", "0", "0", "0", ",", "1", "2", ",", "0", ",", "1", ",", "8", ",", "2", "0", "\r", "\n">>
RawEvtP2P == <<"a", "t", "+", "r", "e", "c", "v", "=", "9", ",", "0", ",", "0", "\r", "\n">>
\* a received-data event of rak811.py in the format <port>,<len> without
\* the optional data field, its length not 0
RawEvtNoDataA == <<"a", "t", "+", "r", "e", "c", "v", "=", "0", ",", "1", ",", "2", "\r", "\n">>

\* what the module sends per dialect: one reply per command, events (and, in
\* the V3 firmware, untagged text) at any time
Replies(d) == IF d = "A" THEN {RawOK0, RawErr} ELSE {RawOKV3, RawErrV3}
Unsolicited(d) == IF d = "A" THEN {RawEvt, RawEvtData} ELSE {RawEvtV3, RawBanner}

AllRaw == {RawOK, RawOK0, RawErr, RawEvt, RawBanner, RawBlank, RawAttn, RawGarbage}

VARIABLES
    keep_untagged,  \* Rak811Serial._keep_untagged
    vocab,          \* the raw lines the module emits in this behaviour
    rx,             \* transport input buffer: raw lines not yet read
    emitted,        \* history of every raw line the module has emitted
    port_closes,    \* number of Serial.close() calls made
    read_buffer,    \* Rak811Serial._read_buffer
    lock,           \* owner of the lock of _cv_serial: "free", "reader" or a caller
    waiters,        \* Condition._waiters, in arrival order
    signaled,       \* waiters whose waiter lock notify() has released
    read_done,      \* Rak811Serial._read_done (Event)
    alive,          \* Rak811Serial._alive
    rpc,            \* position of the reader thread in _read_loop
    rline,          \* the reader's local variable `line` (raw bytes)
    burst,          \* decoded lines appended by the burst in progress
    mpc,            \* position of the main thread in close()
    closeCalls,     \* number of close() calls started
    joins,          \* number of Thread.join() calls made
    pc,             \* position of each caller in receive()
    single,         \* receive(): argument `single` of each caller
    gotit,          \* Condition.wait(): its return value
    ret,            \* outcome of each caller's last receive()
    calls,          \* number of receive() calls the callers have started
    expLen,         \* len(_read_buffer) when the caller's last timed wait expired
    delivered,      \* every line handed to a caller, in order of removal
    dialect,        \* "A": rak811.py (keep_untagged off), "B": rak811_v3.py (on)
    written,        \* number of command lines written to the transport
    strings,        \* number of other strings written to it (_send_string)
    owed,           \* commands the module has received and not yet answered
    op,             \* the protocol call in progress ("none" between calls)
    stage,          \* "resp": awaiting the response ("resp2": of the method's second
                    \* command; "list": the lines of a list command), "events": awaiting
                    \* events, "low" / "high": asleep in hard_reset with the reset pin so
    ops,            \* number of protocol calls started
    downlink,       \* Rak811._downlink
    evLines,        \* buffered lines that event processing has consumed
    respLines,      \* buffered lines that decided a command's outcome
    fn,             \* the last method that has returned or raised ("none" during a call)
    arg,            \* what receive() has handed the call: lines popped, batches drained
    out,            \* what the method returned or raised
    taken,          \* number of lines receive() has handed to the methods called
    waits,          \* timeout of each receive() call _send_command made in the call
    before          \* Rak811._downlink when the call started

serialVars == <<keep_untagged, vocab, rx, emitted, port_closes, read_buffer,
                lock, waiters, signaled, read_done, alive>>
readerVars == <<rpc, rline, burst>>
mainVars == <<mpc, closeCalls, joins>>
callerVars == <<pc, single, gotit, ret, calls, expLen, delivered>>
protoVars == <<dialect, written, strings, owed, op, stage, ops, downlink, evLines, respLines>>
callVars == <<fn, arg, out, taken, waits, before>>
vars == <<serialVars, readerVars, mainVars, callerVars, protoVars, callVars>>

\* ------------------------------------------------------------------------
\* Pure helpers
\* ------------------------------------------------------------------------
\* str.startswith
StartsWith(s, p) == Len(s) >= Len(p) /\ SubSeq(s, 1, Len(p)) = p

\* str.rstrip(EOL): drop every trailing character that is in EOL
RECURSIVE RStrip(_)
RStrip(s) ==
    IF s = <<>> THEN s
    ELSE IF \E i \in 1..Len(EOL) : s[Len(s)] = EOL[i]
         THEN RStrip(SubSeq(s, 1, Len(s) - 1))
         ELSE s

\* line.decode('ascii').rstrip(EOL), '?' on UnicodeDecodeError
Decode_lenient(raw) == RStrip(raw)
Decode(raw) ==
    IF \E i \in 1..Len(raw) : raw[i] \in NonAscii
    THEN SENTINEL
    ELSE RStrip(raw)

\* a run of one or more "t" starts at position i of s
TPlusAt(s, i) == Len(s) >= i /\ s[i] = "t"

\* re.match(r'^(OK|ERROR|at+)', line): in the pattern `+` is the regex
\* repetition operator, so the third branch is "a" followed by one or more "t"
MatchTagged_literal(l) ==
    \/ StartsWith(l, RESPONSE_OK)
    \/ StartsWith(l, RESPONSE_ERROR)
    \/ StartsWith(l, RESPONSE_EVENT)
MatchTagged(l) ==
    \/ StartsWith(l, <<"O", "K">>)
    \/ StartsWith(l, <<"E", "R", "R", "O", "R">>)
    \/ (Len(l) >= 1 /\ l[1] = "a" /\ TPlusAt(l, 2))

\* the reader appends the line: tagged, or keep_untagged is set
Kept(keep, l) == MatchTagged(l) \/ keep

\* _read_buffer.append(line) when the line is kept
BufAppend_front(buf, keep, l) == IF Kept(keep, l) THEN <<l>> \o buf ELSE buf
BufAppend(buf, keep, l) == IF Kept(keep, l) THEN Append(buf, l) ELSE buf

\* remove the first occurrence of c from a sequence (list.remove, tolerant)
RECURSIVE RemoveFirst(_, _)
RemoveFirst(s, c) ==
    IF s = <<>> THEN s
    ELSE IF Head(s) = c THEN Tail(s)
         ELSE <<Head(s)>> \o RemoveFirst(Tail(s), c)

\* decoded and kept lines of a sequence of raw lines, in order
RECURSIVE KeptOf(_, _)
KeptOf(keep, raws) ==
    IF raws = <<>> THEN <<>>
    ELSE (IF Kept(keep, Decode(Head(raws))) THEN <<Decode(Head(raws))>> ELSE <<>>)
         \o KeptOf(keep, Tail(raws))

\* ------------------------------------------------------------------------
\* Protocol layer: text helpers (rak811.py, rak811_v3.py)
\* ------------------------------------------------------------------------
\* rak811_v3.py: RESPONSE_OK / RESPONSE_INIT_OK / RESPONSE_ERROR
RESPONSE_OK_V3 == <<"O", "K", " ">>
RESPONSE_INIT_OK == <<"I", "n", "i", "t", "i", "a", "l", "i", "z", "a", "t", "i", "o", "n", " ", "O", "K">>
RESPONSE_ERROR_V3 == <<"E", "R", "R", "O", "R", ":">>

\* rak811.py: EventCode
RECV_DATA == 0
TX_COMFIRMED == 1
TX_UNCOMFIRMED == 2
JOINED_SUCCESS == 3
P2PTX_COMPLETE == 9
\* rak811_v3.py: ErrorCode.ERR_INVALID_EVENT
ERR_INVALID_EVENT == 998
\* rak811_v3.py: default timeouts, in seconds
RESPONSE_TIMEOUT == 5
EVENT_TIMEOUT == 5 * 60

\* s[n:]
DropPrefix(s, n) == SubSeq(s, n + 1, Len(s))

Digits == <<"0", "1", "2", "3", "4", "5", "6", "7", "8", "9">>
HexDigits == Digits \o <<"a", "b", "c", "d", "e", "f">>
HexUpper == Digits \o <<"A", "B", "C", "D", "E", "F">>
IsDigit(ch) == \E i \in 1..Len(Digits) : Digits[i] = ch
IsHex(ch) == \E i \in 1..Len(HexDigits) : HexDigits[i] = ch \/ HexUpper[i] = ch
HexVal(ch) == (CHOOSE i \in 1..Len(HexDigits) : HexDigits[i] = ch \/ HexUpper[i] = ch) - 1
\* the white space int() and bytes.fromhex() skip in an ASCII string: space,
\* \t, \n, \r, \f and \v ("x0B" stands for the character 0x0B)
IsSpace(ch) == ch \in {" ", "\t", "\n", "\r", "\f", "x0B"}

\* str.split(sep) for a one-character separator
RECURSIVE Split(_, _)
Split(s, sep) ==
    IF \E i \in 1..Len(s) : s[i] = sep
    THEN LET k == CHOOSE i \in 1..Len(s) :
                      s[i] = sep /\ \A j \in 1..(i - 1) : s[j] # sep
         IN  <<SubSeq(s, 1, k - 1)>> \o Split(SubSeq(s, k + 1, Len(s)), sep)
    ELSE <<s>>

\* int(): the white space on either side of the number is skipped
RECURSIVE LStrip(_)
LStrip(s) == IF s # <<>> /\ IsSpace(s[1]) THEN LStrip(Tail(s)) ELSE s
RECURSIVE RStripSpace(_)
RStripSpace(s) ==
    IF s # <<>> /\ IsSpace(s[Len(s)]) THEN RStripSpace(SubSeq(s, 1, Len(s) - 1)) ELSE s
Strip(s) == RStripSpace(LStrip(s))

AllDigits(s) == s # <<>> /\ \A i \in 1..Len(s) : IsDigit(s[i])

RECURSIVE DecVal(_)
DecVal(s) == IF s = <<>> THEN 0 ELSE 10 * DecVal(SubSeq(s, 1, Len(s) - 1)) + HexVal(s[Len(s)])

\* sys.get_int_max_str_digits(): int() raises ValueError on more digits
MAX_STR_DIGITS == 4300

\* int(): decimal digits, with single underscores between digits (PEP 515),
\* no more than MAX_STR_DIGITS of them (signs, underscores and white space
\* do not count, leading zeros do)
IntDigits(s) ==
    /\ s # <<>>
    /\ IsDigit(s[1])
    /\ IsDigit(s[Len(s)])
    /\ \A i \in 1..Len(s) : IsDigit(s[i]) \/ (s[i] = "_" /\ IsDigit(s[i - 1]))
    /\ Len(SelectSeq(s, IsDigit)) <= MAX_STR_DIGITS

\* int(s) succeeds: optional white space, optional sign, digits within the
\* limit of the runtime
IntOK(s) ==
    LET t == Strip(s)
    IN  IF t # <<>> /\ t[1] \in {"+", "-"} THEN IntDigits(Tail(t)) ELSE IntDigits(t)

\* the value of int(s)
IntVal(s) ==
    LET t == Strip(s)
        NotUnderscore(ch) == ch # "_"
    IN  IF t[1] = "-" THEN 0 - DecVal(SelectSeq(Tail(t), NotUnderscore))
        ELSE IF t[1] = "+" THEN DecVal(SelectSeq(Tail(t), NotUnderscore))
        ELSE DecVal(SelectSeq(t, NotUnderscore))

\* Rak811._int: int(i), or i itself on ValueError; the result says which
ToInt(s) ==
    IF IntOK(s) THEN [isint |-> TRUE, val |-> IntVal(s)]
    ELSE [isint |-> FALSE, val |-> s]

\* v == n for the result of _int and an integer n
IntIs(v, n) == v.isint /\ v.val = n

\* bytes.fromhex(s) succeeds: pairs of hexadecimal digits, white space
\* allowed before, between and after the pairs but not inside one
RECURSIVE HexOK(_)
HexOK(s) ==
    LET t == LStrip(s)
    IN  IF t = <<>> THEN TRUE
        ELSE /\ Len(t) >= 2
             /\ IsHex(t[1])
             /\ IsHex(t[2])
             /\ HexOK(SubSeq(t, 3, Len(t)))

\* bytes.fromhex(s): the byte values
RECURSIVE FromHex(_)
FromHex(s) ==
    LET t == LStrip(s)
    IN  IF t = <<>> THEN <<>>
        ELSE <<16 * HexVal(t[1]) + HexVal(t[2])>> \o FromHex(SubSeq(t, 3, Len(t)))

\* the outcome of a protocol call
OkRes(v) == [kind |-> "ok", val |-> v]
TimeoutRes == [kind |-> "timeout"]
\* Rak811ResponseError(code): errno = int(code), or code on ValueError
ResponseError(code) == [kind |-> "response_error", errno |-> ToInt(code)]
\* Rak811EventError(status), status being a result of _int
EventError(status) == [kind |-> "event_error", errno |-> status]
\* an exception the code does not catch (IndexError, TypeError,
\* OverflowError, the PortNotOpenError of a closed port)
Uncaught(name) == [kind |-> "uncaught", exc |-> name]

\* rak811.py _send_command: what one popped line means.
\*   "skip": an event line, pop again;  otherwise the outcome of the call
A_Response_noskip(line) ==
    IF StartsWith(line, RESPONSE_OK)
    THEN OkRes(DropPrefix(line, Len(RESPONSE_OK)))
    ELSE IF StartsWith(line, RESPONSE_ERROR)
    THEN ResponseError(DropPrefix(line, Len(RESPONSE_ERROR)))
    ELSE ResponseError(line)
A_Response_rawerror(line) ==
    IF StartsWith(line, RESPONSE_EVENT)
    THEN [kind |-> "skip"]
    ELSE IF StartsWith(line, RESPONSE_OK)
    THEN OkRes(DropPrefix(line, Len(RESPONSE_OK)))
    ELSE ResponseError(line)
A_Response(line) ==
    IF StartsWith(line, RESPONSE_EVENT)
    THEN [kind |-> "skip"]
    ELSE IF StartsWith(line, RESPONSE_OK)
    THEN OkRes(DropPrefix(line, Len(RESPONSE_OK)))
    ELSE IF StartsWith(line, RESPONSE_ERROR)
    THEN ResponseError(DropPrefix(line, Len(RESPONSE_ERROR)))
    ELSE ResponseError(line)

\* rak811_v3.py _send_command: what one popped line means
B_Response_strict(line) ==
    IF StartsWith(line, RESPONSE_EVENT)
    THEN [kind |-> "skip"]
    ELSE IF StartsWith(line, RESPONSE_ERROR_V3)
    THEN ResponseError(DropPrefix(line, Len(RESPONSE_ERROR_V3)))
    ELSE IF StartsWith(line, RESPONSE_INIT_OK)
    THEN OkRes(DropPrefix(line, Len(RESPONSE_INIT_OK)))
    ELSE IF StartsWith(line, RESPONSE_OK_V3)
    THEN OkRes(DropPrefix(line, Len(RESPONSE_OK_V3)))
    ELSE ResponseError(line)
B_Response(line) ==
    IF ~(StartsWith(line, RESPONSE_OK_V3) \/ StartsWith(line, RESPONSE_INIT_OK)
         \/ StartsWith(line, RESPONSE_ERROR_V3))
    THEN [kind |-> "skip"]
    ELSE IF StartsWith(line, RESPONSE_ERROR_V3)
    THEN ResponseError(DropPrefix(line, Len(RESPONSE_ERROR_V3)))
    ELSE IF StartsWith(line, RESPONSE_INIT_OK)
    THEN OkRes(DropPrefix(line, Len(RESPONSE_INIT_OK)))
    ELSE OkRes(DropPrefix(line, Len(RESPONSE_OK_V3)))

\* rak811.py _get_events: i[len(RESPONSE_EVENT):] for every drained line
A_GetEvents(batch) == [i \in 1..Len(batch) |-> DropPrefix(batch[i], Len(RESPONSE_EVENT))]

\* rak811_v3.py _get_events: the prefix is removed from the lines that have it
B_GetEvents(batch) ==
    [i \in 1..Len(batch) |->
        IF StartsWith(batch[i], RESPONSE_EVENT)
        THEN DropPrefix(batch[i], Len(RESPONSE_EVENT))
        ELSE batch[i]]

\* a downlink record
Downlink(port, rssi, snr, len, data) ==
    [port |-> port, rssi |-> rssi, snr |-> snr, len |-> len, data |-> data]

\* rak811.py _add_downlink(event), event being the fields after the status.
\* The result is the record to append, or the exception the code lets out:
\* list.pop(0) of an empty list and event[0] of an empty list raise IndexError,
\* `r_len > 0` on a str raises TypeError.
A_AddDownlink(ev) ==
    IF Len(ev) = 0 THEN Uncaught("IndexError")
    ELSE
    LET r_port == ToInt(ev[1])
        e1 == Tail(ev)
        ex == Len(e1) > 2
        r_rssi == IF ex THEN ToInt(e1[1]) ELSE [isint |-> TRUE, val |-> 0]
        r_snr == IF ex THEN ToInt(e1[2]) ELSE [isint |-> TRUE, val |-> 0]
        e2 == IF ex THEN Tail(Tail(e1)) ELSE e1
    IN  IF Len(e2) = 0 THEN Uncaught("IndexError")
        ELSE
        LET r_len == ToInt(e2[1])
            e3 == Tail(e2)
        IN  IF ~r_len.isint THEN Uncaught("TypeError")
            ELSE IF r_len.val > 0
            THEN IF Len(e3) = 0 THEN Uncaught("IndexError")
                 ELSE [kind |-> "downlink",
                       rec |-> Downlink(r_port, r_rssi, r_snr, r_len,
                                        IF HexOK(e3[1]) THEN FromHex(e3[1]) ELSE <<>>)]
            ELSE [kind |-> "downlink", rec |-> Downlink(r_port, r_rssi, r_snr, r_len, <<>>)]

\* rak811.py _process_events, first loop: the downlinks of the batch in order,
\* up to the first exception
RECURSIVE A_Downlinks(_)
A_Downlinks(events) ==
    IF events = <<>> THEN [recs |-> <<>>, exc |-> [kind |-> "none"]]
    ELSE LET items == Split(Head(events), ",")
             status == ToInt(items[1])
         IN  IF IntIs(status, RECV_DATA)
             THEN LET d == A_AddDownlink(Tail(items))
                  IN  IF d.kind = "uncaught" THEN [recs |-> <<>>, exc |-> d]
                      ELSE LET rest == A_Downlinks(Tail(events))
                           IN  [recs |-> <<d.rec>> \o rest.recs, exc |-> rest.exc]
             ELSE A_Downlinks(Tail(events))

\* rak811.py _process_events, second loop: the first status that is not
\* RECV_DATA, TX_COMFIRMED or TX_UNCOMFIRMED raises Rak811EventError
RECURSIVE A_FirstError(_)
A_FirstError(events) ==
    IF events = <<>> THEN OkRes(<<>>)
    ELSE LET status == ToInt(Split(Head(events), ",")[1])
         IN  IF IntIs(status, RECV_DATA) \/ IntIs(status, TX_COMFIRMED)
                \/ IntIs(status, TX_UNCOMFIRMED)
             THEN A_FirstError(Tail(events))
             ELSE EventError(status)

\* rak811.py _process_events on a drained batch: the records appended to the
\* downlink list and the outcome
A_ProcessEvents(batch) ==
    LET events == A_GetEvents(batch)
        d == A_Downlinks(events)
    IN  [recs |-> d.recs,
         res |-> IF d.exc.kind # "none" THEN d.exc ELSE A_FirstError(events)]

\* -?\d+
SignedDigits(s) == IF s # <<>> /\ s[1] = "-" THEN AllDigits(Tail(s)) ELSE AllDigits(s)

\* position of the first ":" of s, 0 when there is none
FirstColon(s) ==
    IF \E i \in 1..Len(s) : s[i] = ":"
    THEN CHOOSE i \in 1..Len(s) : s[i] = ":" /\ \A j \in 1..(i - 1) : s[j] # ":"
    ELSE 0

\* rak811_v3.py: match(r'((\d+),)?(-?\d+),(-?\d+),(\d+)(:(.*))?$', event).
\* The part before the first ":" holds three or four comma-separated numbers
\* (the port, when present, and the length unsigned); the rest is the data.
\* groups: port and data are absent (None) when their group did not match.
\* `$` matches at the end and before a final "\n"; `.` matches no "\n".
B_Match(event) ==
    LET core == IF event # <<>> /\ event[Len(event)] = "\n"
                THEN SubSeq(event, 1, Len(event) - 1) ELSE event
        k == FirstColon(core)
        head == IF k = 0 THEN core ELSE SubSeq(core, 1, k - 1)
        f == Split(head, ",")
        hasData == k # 0
        data == IF k = 0 THEN <<>> ELSE SubSeq(core, k + 1, Len(core))
    IN  IF \E i \in 1..Len(data) : data[i] = "\n"
        THEN [ok |-> FALSE]
        ELSE IF Len(f) = 4 /\ AllDigits(f[1]) /\ SignedDigits(f[2]) /\ SignedDigits(f[3])
           /\ AllDigits(f[4])
        THEN [ok |-> TRUE, hasPort |-> TRUE, port |-> f[1], rssi |-> f[2], snr |-> f[3],
              length |-> f[4], hasData |-> hasData, data |-> data]
        ELSE IF Len(f) = 3 /\ SignedDigits(f[1]) /\ SignedDigits(f[2]) /\ AllDigits(f[3])
        THEN [ok |-> TRUE, hasPort |-> FALSE, port |-> <<>>, rssi |-> f[1], snr |-> f[2],
              length |-> f[3], hasData |-> hasData, data |-> data]
        ELSE [ok |-> FALSE]

\* rak811_v3.py _add_downlink: `r_len > 0` on a str (a length of more
\* digits than int() takes) and bytes.fromhex(None) raise TypeError
B_AddDownlink(m) ==
    LET r_port == IF m.hasPort THEN ToInt(m.port) ELSE [isint |-> TRUE, val |-> 0]
        r_len == ToInt(m.length)
    IN  IF ~r_len.isint THEN Uncaught("TypeError")
        ELSE IF r_len.val > 0
        THEN IF ~m.hasData THEN Uncaught("TypeError")
             ELSE [kind |-> "downlink",
                   rec |-> Downlink(r_port, ToInt(m.rssi), ToInt(m.snr), r_len,
                                    IF HexOK(m.data) THEN FromHex(m.data) ELSE <<>>)]
        ELSE [kind |-> "downlink",
              rec |-> Downlink(r_port, ToInt(m.rssi), ToInt(m.snr), r_len, <<>>)]

\* rak811_v3.py _process_events loop: records appended before the first line
\* that does not match (Invalid-Event error) or lets an exception out
RECURSIVE B_Events(_)
B_Events(events) ==
    IF events = <<>> THEN [recs |-> <<>>, res |-> OkRes(<<>>)]
    ELSE LET m == B_Match(Head(events))
             \* Rak811ResponseError(ErrorCode.ERR_INVALID_EVENT)
             InvalidEventError == [kind |-> "response_error",
                                   errno |-> [isint |-> TRUE, val |-> ERR_INVALID_EVENT]]
         IN  IF ~m.ok THEN [recs |-> <<>>, res |-> InvalidEventError]
             ELSE LET d == B_AddDownlink(m)
                  IN  IF d.kind = "uncaught" THEN [recs |-> <<>>, res |-> d]
                      ELSE LET rest == B_Events(Tail(events))
                           IN  [recs |-> <<d.rec>> \o rest.recs, res |-> rest.res]

\* rak811_v3.py _process_events on a drained batch
B_ProcessEvents(batch) == B_Events(B_GetEvents(batch))

NoRet == [kind |-> "none"]

\* the reader is inside the `with self._cv_serial:` block
InBurst == rpc \in {"classify", "more", "notify"}

\* ------------------------------------------------------------------------
\* The module (environment): puts one complete CRLF-terminated line on the
\* wire.  Lines that arrive while a burst is in progress join that burst.
\* ------------------------------------------------------------------------
Emit(l) ==
    /\ Len(emitted) < MaxEmit
    /\ l \in vocab
    /\ rx' = Append(rx, l)
    /\ emitted' = Append(emitted, l)
    /\ UNCHANGED <<keep_untagged, vocab, port_closes, read_buffer, lock, waiters,
                   signaled, read_done, alive>>
    /\ UNCHANGED <<readerVars, mainVars, callerVars>>
    /\ UNCHANGED <<protoVars, callVars>>

\* ------------------------------------------------------------------------
\* Reader thread: Rak811Serial._read_loop
\* ------------------------------------------------------------------------
\* while not self._read_done.is_set():
RdTop ==
    /\ rpc = "top"
    /\ rpc' = IF read_done THEN "exit" ELSE "readline"
    /\ UNCHANGED <<serialVars, rline, burst, mainVars, callerVars>>
    /\ UNCHANGED <<protoVars, callVars>>

\* line = self._serial.readline() returns a line
RdReadline ==
    /\ rpc = "readline"
    /\ rx # <<>>
    /\ rline' = Head(rx)
    /\ rx' = Tail(rx)
    /\ rpc' = "lock"
    /\ UNCHANGED <<keep_untagged, vocab, emitted, port_closes, read_buffer, lock,
                   waiters, signaled, read_done, alive>>
    /\ UNCHANGED <<burst, mainVars, callerVars>>
    /\ UNCHANGED <<protoVars, callVars>>

\* line = self._serial.readline() returns b'' after the port timeout
RdReadTimeout ==
    /\ rpc = "readline"
    /\ rx = <<>>
    /\ rpc' = "top"
    /\ UNCHANGED <<serialVars, rline, burst, mainVars, callerVars>>
    /\ UNCHANGED <<protoVars, callVars>>

\* with self._cv_serial:  (acquire)
RdLock ==
    /\ rpc = "lock"
    /\ lock = "free"
    /\ lock' = "reader"
    /\ rpc' = "classify"
    /\ burst' = <<>>
    /\ UNCHANGED <<keep_untagged, vocab, rx, emitted, port_closes, read_buffer,
                   waiters, signaled, read_done, alive>>
    /\ UNCHANGED <<rline, mainVars, callerVars>>
    /\ UNCHANGED <<protoVars, callVars>>

\* the lock the reader holds after classifying a line: it stays in the
\* `with` block (the inner loop is inside it)
LockAfterClassify_released == "free"
LockAfterClassify == "reader"

\* decode, match, append (or ignore), sleep(0.1)
RdClassify ==
    /\ rpc = "classify"
    /\ read_buffer' = BufAppend(read_buffer, keep_untagged, Decode(rline))
    /\ burst' = BufAppend(burst, keep_untagged, Decode(rline))
    /\ lock' = LockAfterClassify
    /\ rpc' = "more"
    /\ UNCHANGED <<keep_untagged, vocab, rx, emitted, port_closes, waiters,
                   signaled, read_done, alive>>
    /\ UNCHANGED <<rline, mainVars, callerVars>>
    /\ UNCHANGED <<protoVars, callVars>>

\* the inner loop's test `self._serial.in_waiting > 0`: the bytes waiting
\* decide alone, the stop flag (done) is not consulted
BurstGoesOn_untilstop(done, in_waiting) == ~done /\ in_waiting > 0
BurstGoesOn(done, in_waiting) == in_waiting > 0

\* if self._serial.in_waiting > 0: line = self._serial.readline()
RdNext ==
    /\ rpc = "more"
    /\ BurstGoesOn(read_done, Len(rx))
    /\ rline' = Head(rx)
    /\ rx' = Tail(rx)
    /\ rpc' = "classify"
    /\ UNCHANGED <<keep_untagged, vocab, emitted, port_closes, read_buffer, lock,
                   waiters, signaled, read_done, alive>>
    /\ UNCHANGED <<burst, mainVars, callerVars>>
    /\ UNCHANGED <<protoVars, callVars>>

\* else: break
RdBurstEnd ==
    /\ rpc = "more"
    /\ ~BurstGoesOn(read_done, Len(rx))
    /\ rpc' = "notify"
    /\ UNCHANGED <<serialVars, rline, burst, mainVars, callerVars>>
    /\ UNCHANGED <<protoVars, callVars>>

\* Condition.notify(): release the waiter lock of the first waiter and drop
\* it from _waiters
NotifyWaiters(ws) == IF ws = <<>> THEN ws ELSE Tail(ws)
NotifySignaled_lost(ws, sg) == sg
NotifySignaled(ws, sg) == IF ws = <<>> THEN sg ELSE sg \cup {Head(ws)}

\* `if len(self._read_buffer) > 0:` decides whether notify() is called
NotifyCalled(buf) == Len(buf) > 0

\* if len(self._read_buffer) > 0: self._cv_serial.notify();  leave the `with`
RdNotify ==
    /\ rpc = "notify"
    /\ IF NotifyCalled(read_buffer)
       THEN /\ waiters' = NotifyWaiters(waiters)
            /\ signaled' = NotifySignaled(waiters, signaled)
       ELSE UNCHANGED <<waiters, signaled>>
    /\ lock' = "free"
    /\ rpc' = "top"
    /\ rline' = <<>>
    /\ burst' = <<>>
    /\ UNCHANGED <<keep_untagged, vocab, rx, emitted, port_closes, read_buffer,
                   read_done, alive>>
    /\ UNCHANGED <<mainVars, callerVars>>
    /\ UNCHANGED <<protoVars, callVars>>

Reader ==
    \/ RdTop
    \/ RdReadline
    \/ RdReadTimeout
    \/ RdLock
    \/ RdClassify
    \/ RdNext
    \/ RdBurstEnd
    \/ RdNotify

\* ------------------------------------------------------------------------
\* Foreground callers: Rak811Serial.receive
\* ------------------------------------------------------------------------
\* entering receive(single=s): the caller's locals of a new call
StartReceive(c, s) ==
    /\ single' = [single EXCEPT ![c] = s]
    /\ ret' = [ret EXCEPT ![c] = NoRet]
    /\ expLen' = [expLen EXCEPT ![c] = 0]
    /\ gotit' = [gotit EXCEPT ![c] = FALSE]
    /\ pc' = [pc EXCEPT ![c] = "enter"]

\* a caller starts receive(single=s)
CallReceive(c, s) ==
    /\ pc[c] = "idle"
    /\ calls < MaxCalls
    /\ calls' = calls + 1
    /\ StartReceive(c, s)
    /\ UNCHANGED <<serialVars, readerVars, mainVars, delivered>>
    /\ UNCHANGED <<protoVars, callVars>>

\* with self._cv_serial:  (acquire)
RcvAcquire(c) ==
    /\ pc[c] = "enter"
    /\ lock = "free"
    /\ lock' = c
    /\ pc' = [pc EXCEPT ![c] = "check"]
    /\ UNCHANGED <<keep_untagged, vocab, rx, emitted, port_closes, read_buffer,
                   waiters, signaled, read_done, alive>>
    /\ UNCHANGED <<readerVars, mainVars, single, gotit, ret, calls, expLen, delivered>>
    /\ UNCHANGED <<protoVars, callVars>>

\* response = self._read_buffer.pop(0)  /  response = self._read_buffer
TakeRet_last(buf, s) ==
    IF s THEN [kind |-> "line", val |-> buf[Len(buf)]]
         ELSE [kind |-> "batch", val |-> buf]
TakeRet_odd(buf, s) ==
    IF s THEN [kind |-> "line", val |-> Head(buf)]
         ELSE [kind |-> "batch", val |-> [i \in 1..((Len(buf) + 1) \div 2) |-> buf[2 * i - 1]]]
TakeRet(buf, s) ==
    IF s THEN [kind |-> "line", val |-> Head(buf)]
         ELSE [kind |-> "batch", val |-> buf]

\* the buffer left behind by pop(0)  /  self._read_buffer = []
TakeRest_keep(buf, s) == IF s THEN Tail(buf) ELSE buf
TakeRest(buf, s) == IF s THEN Tail(buf) ELSE <<>>

\* the lines a receive() took out of the buffer
TakenLines(r) ==
    IF r.kind = "line" THEN <<r.val>>
    ELSE IF r.kind = "batch" THEN r.val
    ELSE <<>>

\* while len(self._read_buffer) == 0: wait(timeout) ...; then take the data.
\* The caller holds the lock; wait() queues the caller and releases the lock.
RcvCheck(c) ==
    /\ pc[c] = "check"
    /\ lock = c
    /\ lock' = "free"
    /\ IF Len(read_buffer) = 0
       THEN /\ waiters' = Append(waiters, c)
            /\ pc' = [pc EXCEPT ![c] = "waiting"]
            /\ UNCHANGED <<read_buffer, ret, delivered>>
       ELSE /\ ret' = [ret EXCEPT ![c] = TakeRet(read_buffer, single[c])]
            /\ read_buffer' = TakeRest(read_buffer, single[c])
            /\ delivered' = delivered \o TakenLines(TakeRet(read_buffer, single[c]))
            /\ pc' = [pc EXCEPT ![c] = "idle"]
            /\ UNCHANGED waiters
    /\ UNCHANGED <<keep_untagged, vocab, rx, emitted, port_closes, signaled,
                   read_done, alive>>
    /\ UNCHANGED <<readerVars, mainVars, single, gotit, calls, expLen>>
    /\ UNCHANGED <<protoVars, callVars>>

\* Condition.wait(timeout): the waiter lock was released by notify()
RcvNotified(c) ==
    /\ pc[c] = "waiting"
    /\ c \in signaled
    /\ signaled' = signaled \ {c}
    /\ gotit' = [gotit EXCEPT ![c] = TRUE]
    /\ pc' = [pc EXCEPT ![c] = "reacq"]
    /\ UNCHANGED <<keep_untagged, vocab, rx, emitted, port_closes, read_buffer,
                   lock, waiters, read_done, alive>>
    /\ UNCHANGED <<readerVars, mainVars, single, ret, calls, expLen, delivered>>
    /\ UNCHANGED <<protoVars, callVars>>

\* Condition.wait(timeout): the timeout expires before any notify()
RcvTimeout(c) ==
    /\ pc[c] = "waiting"
    /\ c \notin signaled
    /\ gotit' = [gotit EXCEPT ![c] = FALSE]
    /\ expLen' = [expLen EXCEPT ![c] = Len(read_buffer)]
    /\ pc' = [pc EXCEPT ![c] = "reacq"]
    /\ UNCHANGED <<serialVars, readerVars, mainVars, single, ret, calls, delivered>>
    /\ UNCHANGED <<protoVars, callVars>>

\* what receive() does with the value of wait(): `if not success: raise`
RaisesTimeout_never(g) == FALSE
RaisesTimeout(g) == ~g

\* Condition.wait(): re-acquire the lock; a wait that timed out leaves
\* _waiters and receive() raises Rak811TimeoutError (releasing the lock),
\* otherwise the while loop tests the buffer again
RcvReacquire(c) ==
    /\ pc[c] = "reacq"
    /\ lock = "free"
    /\ waiters' = IF gotit[c] THEN waiters ELSE RemoveFirst(waiters, c)
    /\ signaled' = signaled \ {c}
    /\ IF RaisesTimeout(gotit[c])
       THEN /\ ret' = [ret EXCEPT ![c] = [kind |-> "timeout"]]
            /\ pc' = [pc EXCEPT ![c] = "idle"]
            /\ UNCHANGED lock
       ELSE /\ lock' = c
            /\ pc' = [pc EXCEPT ![c] = "check"]
            /\ UNCHANGED ret
    /\ UNCHANGED <<keep_untagged, vocab, rx, emitted, port_closes, read_buffer,
                   read_done, alive>>
    /\ UNCHANGED <<readerVars, mainVars, single, gotit, calls, expLen, delivered>>
    /\ UNCHANGED <<protoVars, callVars>>

Receive(c) ==
    \/ \E s \in BOOLEAN : CallReceive(c, s)
    \/ RcvAcquire(c)
    \/ RcvCheck(c)
    \/ RcvNotified(c)
    \/ RcvTimeout(c)
    \/ RcvReacquire(c)

\* ------------------------------------------------------------------------
\* Main thread: Rak811Serial.close
\* ------------------------------------------------------------------------
\* if self._alive:
CloseEnters_always(a) == TRUE
CloseEnters_never(a) == FALSE
CloseEnters(a) == a

CloseCall ==
    /\ mpc = "idle"
    /\ closeCalls < MaxClose
    /\ closeCalls' = closeCalls + 1
    /\ mpc' = IF CloseEnters(alive) THEN "set" ELSE "idle"
    /\ UNCHANGED <<serialVars, readerVars, joins, callerVars>>
    /\ UNCHANGED <<protoVars, callVars>>

\* self._read_done.set()
CloseSet ==
    /\ mpc = "set"
    /\ read_done' = TRUE
    /\ mpc' = "join"
    /\ UNCHANGED <<keep_untagged, vocab, rx, emitted, port_closes, read_buffer,
                   lock, waiters, signaled, alive>>
    /\ UNCHANGED <<readerVars, closeCalls, joins, callerVars>>
    /\ UNCHANGED <<protoVars, callVars>>

\* Thread.join() without a timeout returns once _read_loop has returned
JoinReturns_early(r) == TRUE
JoinReturns(r) == r = "exit"

\* self._read_thread.join()
CloseJoin ==
    /\ mpc = "join"
    /\ JoinReturns(rpc)
    /\ joins' = joins + 1
    /\ mpc' = "close"
    /\ UNCHANGED <<serialVars, readerVars, closeCalls, callerVars>>
    /\ UNCHANGED <<protoVars, callVars>>

\* self._serial.close()
CloseSerial ==
    /\ mpc = "close"
    /\ port_closes' = port_closes + 1
    /\ mpc' = "flag"
    /\ UNCHANGED <<keep_untagged, vocab, rx, emitted, read_buffer, lock, waiters,
                   signaled, read_done, alive>>
    /\ UNCHANGED <<readerVars, closeCalls, joins, callerVars>>
    /\ UNCHANGED <<protoVars, callVars>>

\* self._alive = False
CloseFlag ==
    /\ mpc = "flag"
    /\ alive' = FALSE
    /\ mpc' = "idle"
    /\ UNCHANGED <<keep_untagged, vocab, rx, emitted, port_closes, read_buffer,
                   lock, waiters, signaled, read_done>>
    /\ UNCHANGED <<readerVars, closeCalls, joins, callerVars>>
    /\ UNCHANGED <<protoVars, callVars>>

Close ==
    \/ CloseCall
    \/ CloseSet
    \/ CloseJoin
    \/ CloseSerial
    \/ CloseFlag

\* ------------------------------------------------------------------------
\* Protocol layer: Rak811 (rak811.py, dialect A; rak811_v3.py, dialect B).
\* One foreground thread calls the methods, one at a time; each method runs
\* over the serial layer: it writes its command, then blocks in receive()
\* while the module and the reader thread run, and goes on when receive()
\* has returned or raised.
\* ------------------------------------------------------------------------
ProtoCaller == "c1"

\* rak811.py calls self._serial.get_response() / get_events(timeout): pop_one
\* and drain_all of the Blocking Buffer, i.e. receive(single=True / False)
GetResponseSingle == TRUE
GetEventsSingle == FALSE

Range(f) == {f[i] : i \in DOMAIN f}

Flatten(batches) ==
    IF batches = <<>> THEN <<>>
    ELSE LET F[i \in 1..Len(batches)] ==
                 IF i = 1 THEN batches[1] ELSE F[i - 1] \o batches[i]
         IN  F[Len(batches)]

Response(d, line) == IF d = "A" THEN A_Response(line) ELSE B_Response(line)
GetEvents(d, batch) == IF d = "A" THEN A_GetEvents(batch) ELSE B_GetEvents(batch)
ProcessEvents(d, batch) == IF d = "A" THEN A_ProcessEvents(batch) ELSE B_ProcessEvents(batch)

\* the methods called; a public method of the same shape as another goes
\* under the other's name:
\*   "send_command":      _send_command
\*   "send_command_list": _send_command_list, and set_config, get_config, help
\*                        (rak811_v3.py), which return what it returns
\*   "get_events":        _get_events
\*   "process_events":    _process_events
\*   "version":           version, and get_config, band (rak811.py): one
\*                        _send_command, its text returned
\*   "sleep":             sleep, reset(Reset.LoRa), reload, set_config,
\*                        join_abp, rxc, tx_stop, rx_stop, clear_radio_status
\*                        and the setters of mode, recv_ex, band, dr, link_cnt
\*                        (rak811.py): one _send_command, nothing returned
\*   "reset":             reset(Reset.Module) (rak811.py): one _send_command,
\*                        then hard_reset()
\*   "run":               run, send_uart, send_p2p (rak811_v3.py): the same
\*   "mode":              mode, recv_ex, dr (rak811.py): _int of the text
\*   "signal":            signal, link_cnt, radio_status (rak811.py): the
\*                        tuple of _int of the fields of the text
\*   "abp_info":          abp_info (rak811.py): the tuple of the fields
\*   "rf_config":         rf_config (rak811.py): _get_rf_config()
\*   "rf_config_set":     the setter of rf_config (rak811.py), given a
\*                        dictionary without 'freq': _get_rf_config(), then
\*                        a second _send_command
\*   "join":              join (rak811_v3.py)
\*   "join_otaa":         join_otaa (rak811.py)
\*   "send":              send
\*   "txc":               txc (rak811.py)
\*   "wake_up":           wake_up (rak811.py)
\*   "rx_get":            rx_get (rak811.py) / receive_p2p (rak811_v3.py)
\*   "get_downlink":      get_downlink
\*   "nb_downlinks":      nb_downlinks
\*   "hard_reset":        hard_reset (the reset pin low, a sleep, the pin
\*                        high, a sleep: nothing of the driver changes)
\*   "close":             close
PrivateMethods == {"send_command", "send_command_list", "get_events", "process_events"}
\* the public methods, in two sets: those that deal with the network, the
\* events and the downlink list, and the commands that get or set a value
LoraMethods == {"version", "send_command_list", "join", "join_otaa", "send", "txc",
                "wake_up", "rx_get", "get_downlink", "nb_downlinks", "hard_reset",
                "close"}
ApiMethods == {"version", "send_command_list", "sleep", "reset", "run", "mode", "signal",
               "abp_info", "rf_config", "rf_config_set", "txc", "wake_up"}
ProtoMethods == {"send_command", "send", "rx_get"}
\* the methods of one dialect only, and whether dialect d has method m
Has(d, m) ==
    LET OnlyA == {"sleep", "reset", "mode", "signal", "abp_info", "rf_config",
                  "rf_config_set", "join_otaa", "txc", "wake_up"}
        OnlyB == {"send_command_list", "run", "join"}
    IN  IF d = "A" THEN m \notin OnlyB ELSE m \notin OnlyA

\* the methods that start with _send_command / _send_command_list
SendsCommand == {"send_command", "send_command_list", "version", "sleep", "reset", "run", "mode",
                 "signal", "abp_info", "rf_config", "rf_config_set", "join",
                 "join_otaa", "send", "txc"}
\* the methods that go on to wait for events after the OK of their command
ThenEvents == {"send", "join_otaa", "txc"}
\* the methods whose one wait is _get_events
AwaitsEvents == {"get_events", "process_events", "rx_get", "wake_up"}

\* a Timeout of the event wait: rx_get (rak811.py), receive_p2p and send
\* (rak811_v3.py) catch it; _get_events, _process_events, join_otaa, txc,
\* wake_up and rak811.py send let it out
EventTimeout_raises(d, m) == TimeoutRes
EventTimeout(d, m) ==
    IF m = "rx_get" \/ (m = "send" /\ d = "B") THEN OkRes(<<>>) ELSE TimeoutRes

\* the send_command calls made before a receive(): one before the first
\* receive() of the call, none before the receive() calls of the loop
CommandWrites_resend(first) == 1
CommandWrites(first) == IF first THEN 1 ELSE 0

\* rak811_v3.py _send_command_list, the while loop over one drained batch:
\* "more" when the batch is used up without a terminal line (the loop drains
\* again), else the lines returned or the error raised, and the terminal line
RECURSIVE CommandListLoop_noprelude(_, _)
CommandListLoop_noprelude(prelude, response) ==
    IF response = <<>> THEN [kind |-> "more"]
    ELSE LET h == Head(response)
         IN  IF StartsWith(h, RESPONSE_OK_V3)
             THEN [kind |-> "done", line |-> h,
                   res |-> OkRes(<<DropPrefix(h, Len(RESPONSE_OK_V3))>> \o Tail(response))]
             ELSE IF StartsWith(h, RESPONSE_INIT_OK)
             THEN [kind |-> "done", line |-> h,
                   res |-> OkRes(<<DropPrefix(h, Len(RESPONSE_INIT_OK))>> \o Tail(response))]
             ELSE IF StartsWith(h, RESPONSE_ERROR_V3)
             THEN [kind |-> "done", line |-> h,
                   res |-> ResponseError(DropPrefix(h, Len(RESPONSE_ERROR_V3)))]
             ELSE CommandListLoop_noprelude(Append(prelude, h), Tail(response))
RECURSIVE CommandListLoop_notrailing(_, _)
CommandListLoop_notrailing(prelude, response) ==
    IF response = <<>> THEN [kind |-> "more"]
    ELSE LET h == Head(response)
         IN  IF StartsWith(h, RESPONSE_OK_V3)
             THEN [kind |-> "done", line |-> h,
                   res |-> OkRes(prelude \o <<DropPrefix(h, Len(RESPONSE_OK_V3))>>)]
             ELSE IF StartsWith(h, RESPONSE_INIT_OK)
             THEN [kind |-> "done", line |-> h,
                   res |-> OkRes(prelude \o <<DropPrefix(h, Len(RESPONSE_INIT_OK))>>)]
             ELSE IF StartsWith(h, RESPONSE_ERROR_V3)
             THEN [kind |-> "done", line |-> h,
                   res |-> ResponseError(DropPrefix(h, Len(RESPONSE_ERROR_V3)))]
             ELSE CommandListLoop_notrailing(Append(prelude, h), Tail(response))
RECURSIVE CommandListLoop(_, _)
CommandListLoop(prelude, response) ==
    IF response = <<>> THEN [kind |-> "more"]
    ELSE LET h == Head(response)
         IN  IF StartsWith(h, RESPONSE_OK_V3)
             THEN [kind |-> "done", line |-> h,
                   res |-> OkRes(prelude \o <<DropPrefix(h, Len(RESPONSE_OK_V3))>>
                                 \o Tail(response))]
             ELSE IF StartsWith(h, RESPONSE_INIT_OK)
             THEN [kind |-> "done", line |-> h,
                   res |-> OkRes(prelude \o <<DropPrefix(h, Len(RESPONSE_INIT_OK))>>
                                 \o Tail(response))]
             ELSE IF StartsWith(h, RESPONSE_ERROR_V3)
             THEN [kind |-> "done", line |-> h,
                   res |-> ResponseError(DropPrefix(h, Len(RESPONSE_ERROR_V3)))]
             ELSE CommandListLoop(Append(prelude, h), Tail(response))

\* rak811.py join_otaa, the loop over the events: the first status that is
\* not JOINED_SUCCESS raises Rak811EventError
JoinLoop_first(events) ==
    IF events = <<>> THEN OkRes(<<>>)
    ELSE LET status == ToInt(Split(Head(events), ",")[1])
         IN  IF IntIs(status, JOINED_SUCCESS) THEN OkRes(<<>>) ELSE EventError(status)
RECURSIVE JoinLoop(_)
JoinLoop(events) ==
    IF events = <<>> THEN OkRes(<<>>)
    ELSE LET status == ToInt(Split(Head(events), ",")[1])
         IN  IF IntIs(status, JOINED_SUCCESS) THEN JoinLoop(Tail(events))
             ELSE EventError(status)

\* rak811.py txc, the loop over the events: the first status that is not
\* P2PTX_COMPLETE raises Rak811EventError
RECURSIVE TxcLoop(_)
TxcLoop(events) ==
    IF events = <<>> THEN OkRes(<<>>)
    ELSE LET status == ToInt(Split(Head(events), ",")[1])
         IN  IF IntIs(status, P2PTX_COMPLETE) THEN TxcLoop(Tail(events))
             ELSE EventError(status)

\* what method m does with the batch its event wait drained: the records it
\* appends to the downlink list and its outcome; wake_up drops the events
EventsOutcome(d, m, batch) ==
    IF m = "get_events" THEN [recs |-> <<>>, res |-> OkRes(GetEvents(d, batch))]
    ELSE IF m = "join_otaa" THEN [recs |-> <<>>, res |-> JoinLoop(A_GetEvents(batch))]
    ELSE IF m = "txc" THEN [recs |-> <<>>, res |-> TxcLoop(A_GetEvents(batch))]
    ELSE IF m = "wake_up" THEN [recs |-> <<>>, res |-> OkRes(<<>>)]
    ELSE ProcessEvents(d, batch)

\* the value None
None == [py |-> "None"]

\* get_downlink on the list dl: the value returned and the list left
GetDownlink_newest(dl) ==
    IF Len(dl) = 0 THEN [res |-> OkRes(None), left |-> dl]
    ELSE [res |-> OkRes(dl[Len(dl)]), left |-> SubSeq(dl, 1, Len(dl) - 1)]
GetDownlink(dl) ==
    IF Len(dl) = 0 THEN [res |-> OkRes(None), left |-> dl]
    ELSE [res |-> OkRes(Head(dl)), left |-> Tail(dl)]

\* a timeout argument, in seconds
Seconds(n) == [py |-> "float", val |-> n]

\* Rak811Serial.receive(timeout): `if timeout is None: timeout =
\* self._read_buffer_timeout`
ReceiveTimeout(timeout, read_buffer_timeout) ==
    IF timeout = None THEN read_buffer_timeout ELSE timeout

\* the timeout argument method m passes to _send_command: rak811_v3.py join
\* and send pass self._event_timeout, the other methods none
CommandTimeout(d, m) ==
    IF d = "B" /\ m \in {"join", "send"} THEN Seconds(EVENT_TIMEOUT) ELSE None

\* rak811_v3.py _send_command(command, timeout): the timeout of a receive()
\* call it makes.  The first call is receive(timeout=timeout), with
\* `if timeout is None: timeout = self._response_timeout` before it; the
\* calls of the loop are receive(); the Rak811Serial is built with
\* read_buffer_timeout = response_timeout.
B_SendCommandWait(first, timeout, response_timeout) ==
    IF first
    THEN ReceiveTimeout(IF timeout = None THEN response_timeout ELSE timeout,
                        response_timeout)
    ELSE ReceiveTimeout(None, response_timeout)

\* the same within a method called on an object built with the default
\* arguments; rak811.py _send_command passes no timeout (get_response())
SendCommandWait(d, first, timeout) ==
    IF d = "B" THEN B_SendCommandWait(first, timeout, Seconds(RESPONSE_TIMEOUT))
    ELSE None

\* tuple(self._int(i) for i in text.split(','))
IntTuple(text) ==
    LET fields == Split(text, ",")
    IN  [i \in 1..Len(fields) |-> ToInt(fields[i])]

\* int(s) is too large for the float arithmetic done on it.  "get":
\* int(s) / 1000 / 1000 raises OverflowError, which is when |int(s)| is at
\* least 1000 * (2^1024 - 2^970).  "set": int(int(s) / 1000 / 1000 * 1000
\* * 1000) raises OverflowError on the infinity the products give, which is
\* when |int(s)| is at least the second number.  The numbers are compared by
\* their decimal digits.
Overflows(s, how) ==
    LET t == Strip(s)
        u == SelectSeq(IF t # <<>> /\ t[1] \in {"+", "-"} THEN Tail(t) ELSE t, IsDigit)
        zeros == IF \E i \in 1..Len(u) : u[i] # "0"
                 THEN (CHOOSE i \in 1..Len(u) : u[i] # "0" /\ \A j \in 1..(i - 1) : u[j] = "0") - 1
                 ELSE Len(u)
        d == SubSeq(u, zeros + 1, Len(u))
        limit == IF how = "get"
                 THEN <<"1", "7", "9", "7", "6", "9", "3", "1", "3", "4", "8", "6", "2",
                        "3", "1", "5", "8", "0", "7", "9", "3", "7", "2", "8", "9", "7",
                        "1", "4", "0", "5", "3", "0", "3", "4", "1", "5", "0", "7", "9",
                        "9", "3", "4", "1", "3", "2", "7", "1", "0", "0", "3", "7", "8",
                        "2", "6", "9", "3", "6", "1", "7", "3", "7", "7", "8", "9", "8",
                        "0", "4", "4", "4", "9", "6", "8", "2", "9", "2", "7", "6", "4",
                        "7", "5", "0", "9", "4", "6", "6", "4", "9", "0", "1", "7", "9",
                        "7", "7", "5", "8", "7", "2", "0", "7", "0", "9", "6", "3", "3",
                        "0", "2", "8", "6", "4", "1", "6", "6", "9", "2", "8", "8", "7",
                        "9", "1", "0", "9", "4", "6", "5", "5", "5", "5", "4", "7", "8",
                        "5", "1", "9", "4", "0", "4", "0", "2", "6", "3", "0", "6", "5",
                        "7", "4", "8", "8", "6", "7", "1", "5", "0", "5", "8", "2", "0",
                        "6", "8", "1", "9", "0", "8", "9", "0", "2", "0", "0", "0", "7",
                        "0", "8", "3", "8", "3", "6", "7", "6", "2", "7", "3", "8", "5",
                        "4", "8", "4", "5", "8", "1", "7", "7", "1", "1", "5", "3", "1",
                        "7", "6", "4", "4", "7", "5", "7", "3", "0", "2", "7", "0", "0",
                        "6", "9", "8", "5", "5", "5", "7", "1", "3", "6", "6", "9", "5",
                        "9", "6", "2", "2", "8", "4", "2", "9", "1", "4", "8", "1", "9",
                        "8", "6", "0", "8", "3", "4", "9", "3", "6", "4", "7", "5", "2",
                        "9", "2", "7", "1", "9", "0", "7", "4", "1", "6", "8", "4", "4",
                        "4", "3", "6", "5", "5", "1", "0", "7", "0", "4", "3", "4", "2",
                        "7", "1", "1", "5", "5", "9", "6", "9", "9", "5", "0", "8", "0",
                        "9", "3", "0", "4", "2", "8", "8", "0", "1", "7", "7", "9", "0",
                        "4", "1", "7", "4", "4", "9", "7", "7", "9", "2", "0", "0", "0">>
                 ELSE <<"1", "7", "9", "7", "6", "9", "3", "1", "3", "4", "8", "6", "2",
                        "3", "1", "5", "7", "5", "0", "2", "4", "5", "0", "3", "0", "7",
                        "6", "6", "5", "6", "5", "0", "3", "9", "5", "9", "5", "1", "0",
                        "7", "3", "1", "7", "5", "9", "0", "8", "7", "9", "2", "6", "3",
                        "4", "6", "8", "9", "7", "4", "4", "7", "4", "7", "9", "2", "8",
                        "4", "2", "0", "0", "5", "1", "2", "3", "8", "6", "9", "6", "4",
                        "1", "2", "8", "2", "7", "6", "5", "8", "3", "3", "9", "3", "0",
                        "4", "3", "8", "6", "2", "9", "5", "4", "4", "3", "6", "6", "8",
                        "6", "1", "6", "7", "4", "1", "4", "5", "4", "2", "8", "1", "4",
                        "4", "4", "9", "5", "6", "6", "0", "4", "5", "1", "3", "8", "8",
                        "5", "8", "0", "0", "8", "8", "3", "8", "0", "2", "2", "8", "2",
                        "8", "9", "2", "8", "4", "7", "1", "2", "7", "4", "1", "4", "5",
                        "1", "0", "7", "7", "4", "0", "4", "2", "2", "5", "8", "3", "6",
                        "1", "7", "5", "5", "9", "3", "1", "3", "7", "5", "7", "4", "5",
                        "6", "4", "7", "1", "5", "8", "5", "6", "7", "7", "8", "4", "8",
                        "2", "5", "6", "9", "9", "9", "6", "8", "0", "1", "5", "8", "3",
                        "1", "0", "0", "3", "0", "7", "1", "4", "0", "0", "7", "6", "1",
                        "9", "9", "2", "5", "5", "6", "2", "6", "2", "1", "5", "9", "7",
                        "9", "8", "6", "8", "6", "3", "1", "0", "2", "7", "0", "9", "3",
                        "2", "4", "8", "3", "7", "2", "2", "6", "9", "0", "8", "0", "8",
                        "6", "7", "3", "7", "8", "6", "7", "9", "1", "0", "3", "2", "1",
                        "3", "4", "0", "1", "2", "1", "9", "6", "7", "2", "0", "0", "2",
                        "2", "0", "6", "0", "0", "3", "5", "4", "9", "0", "2", "6", "9",
                        "1", "0", "2", "0", "8", "0", "0", "0", "0", "0">>
    IN  \/ Len(d) > Len(limit)
        \/ /\ Len(d) = Len(limit)
           /\ \/ d = limit
              \/ \E i \in 1..Len(d) : /\ HexVal(d[i]) > HexVal(limit[i])
                                      /\ \A j \in 1..(i - 1) : d[j] = limit[j]

\* rak811.py _get_rf_config on the text _send_command returned: the
\* dictionary, TypeError when the first field is no integer (str / int),
\* OverflowError when it is too large for the division, IndexError when
\* there are fewer than six fields; MHz(n) is the float n / 1000 / 1000,
\* kept as the integer and its divisors
GetRfConfig(text) ==
    LET fields == Split(text, ",")
        MHz(n) == [py |-> "float", val |-> n, div |-> <<1000, 1000>>]
    IN  IF ~IntOK(fields[1]) THEN Uncaught("TypeError")
        ELSE IF Overflows(fields[1], "get") THEN Uncaught("OverflowError")
        ELSE IF Len(fields) < 6 THEN Uncaught("IndexError")
        ELSE LET config == IntTuple(text)
             IN  OkRes([freq |-> MHz(config[1].val), sf |-> config[2], bw |-> config[3],
                        cr |-> config[4], prlen |-> config[5], pwr |-> config[6]])

\* what method m returns or raises when its _send_command ends with res.
\* The setter of rf_config, called with a dictionary that holds no 'freq',
\* raises what _get_rf_config raises, or OverflowError from int(
\* base_config['freq'] * 1000 * 1000), or else goes on to its second command
Returned(m, res) ==
    IF res.kind # "ok" \/ m \in {"send_command", "version"} THEN res
    ELSE IF m = "mode" THEN OkRes(ToInt(res.val))
    ELSE IF m = "signal" THEN OkRes(IntTuple(res.val))
    ELSE IF m = "abp_info" THEN OkRes(Split(res.val, ","))
    ELSE IF m = "rf_config" THEN GetRfConfig(res.val)
    ELSE IF m = "rf_config_set"
    THEN LET fields == Split(res.val, ",")
         IN  IF /\ IntOK(fields[1]) /\ ~Overflows(fields[1], "get") /\ Len(fields) >= 6
                /\ Overflows(fields[1], "set")
             THEN Uncaught("OverflowError")
             ELSE IF GetRfConfig(res.val).kind # "ok" THEN GetRfConfig(res.val)
             ELSE [kind |-> "command"]
    ELSE OkRes(<<>>)

NoArg == [lines |-> <<>>, batches |-> <<>>]

\* the module answers a command it has received
ModReply(l) ==
    /\ owed > 0
    /\ Len(emitted) < MaxEmit
    /\ owed' = owed - 1
    /\ rx' = Append(rx, l)
    /\ emitted' = Append(emitted, l)
    /\ UNCHANGED <<keep_untagged, vocab, port_closes, read_buffer, lock, waiters,
                   signaled, read_done, alive>>
    /\ UNCHANGED <<readerVars, mainVars, callerVars>>
    /\ UNCHANGED <<dialect, written, strings, op, stage, ops, downlink, evLines, respLines>>
    /\ UNCHANGED callVars

\* a method that starts with _send_command / _send_command_list is called:
\* self._serial.send_command(command), then the first receive().  No method
\* looks whether the object has been closed: after close() the write meets
\* the closed port, which raises PortNotOpenError (pyserial) or takes the
\* bytes (a port that accepts them); what is written to a closed port
\* reaches no module.
CallCommand(m) ==
    /\ m \in SendsCommand
    /\ Has(dialect, m)
    /\ op = "none"
    /\ pc[ProtoCaller] = "idle"
    /\ mpc = "idle"
    /\ ops < MaxOps
    /\ ops' = ops + 1
    /\ arg' = NoArg
    /\ before' = downlink
    /\ \E accepted \in IF port_closes = 0 THEN {TRUE} ELSE BOOLEAN :
           IF accepted
           THEN /\ op' = m
                /\ fn' = "none"
                /\ out' = [kind |-> "none"]
                /\ written' = written + CommandWrites(TRUE)
                /\ owed' = IF port_closes = 0 THEN owed + 1 ELSE owed
                /\ IF m = "send_command_list"
                   THEN /\ stage' = "list"
                        /\ StartReceive(ProtoCaller, FALSE)
                        /\ waits' = <<>>
                   ELSE /\ stage' = "resp"
                        /\ StartReceive(ProtoCaller, GetResponseSingle)
                        /\ waits' = <<SendCommandWait(dialect, TRUE, CommandTimeout(dialect, m))>>
           ELSE /\ fn' = m
                /\ out' = Uncaught("PortNotOpenError")
                /\ waits' = <<>>
                /\ UNCHANGED <<op, stage, written, owed, single, ret, expLen, gotit, pc>>
    /\ UNCHANGED <<serialVars, readerVars, mainVars, calls, delivered>>
    /\ UNCHANGED <<dialect, strings, downlink, evLines, respLines, taken>>

\* _send_command after receive() has returned a line or raised
\* Rak811TimeoutError: an ignored line makes it call receive() again, any
\* other line ends it; after an OK, send, join_otaa and txc go on to the
\* events, the setter of rf_config to its second command and
\* reset(Reset.Module) into hard_reset(); the second command meets the port
\* as the first did
SendCommandNext ==
    /\ op \in SendsCommand
    /\ stage \in {"resp", "resp2"}
    /\ pc[ProtoCaller] = "idle"
    /\ LET r == ret[ProtoCaller]
           m == IF r.kind = "line" THEN Response(dialect, r.val) ELSE TimeoutRes
           \* the setter of rf_config sends its second command after the OK
           \* of the first when nothing was raised on the way to it
           SecondCommand == /\ op = "rf_config_set"
                            /\ stage = "resp"
                            /\ Returned(op, m).kind = "command"
       IN  /\ arg' = IF r.kind = "line" THEN [arg EXCEPT !.lines = Append(@, r.val)] ELSE arg
           /\ taken' = taken + Len(TakenLines(r))
           /\ IF m.kind = "skip"
              THEN /\ StartReceive(ProtoCaller, GetResponseSingle)
                   /\ written' = written + CommandWrites(FALSE)
                   /\ waits' = Append(waits, SendCommandWait(dialect, FALSE,
                                                             CommandTimeout(dialect, op)))
                   /\ UNCHANGED <<op, stage, fn, out, respLines, owed>>
              ELSE IF m.kind = "ok" /\ op \in ThenEvents
              THEN /\ respLines' = respLines \cup {r.val}
                   /\ stage' = "events"
                   /\ StartReceive(ProtoCaller, GetEventsSingle)
                   /\ UNCHANGED <<op, fn, out, written, waits, owed>>
              ELSE IF SecondCommand
              THEN /\ respLines' = respLines \cup {r.val}
                   /\ stage' = "resp2"
                   /\ written' = written + CommandWrites(TRUE)
                   /\ owed' = IF port_closes = 0 THEN owed + 1 ELSE owed
                   /\ StartReceive(ProtoCaller, GetResponseSingle)
                   /\ waits' = Append(waits, SendCommandWait(dialect, TRUE,
                                                             CommandTimeout(dialect, op)))
                   /\ UNCHANGED <<op, fn, out>>
              ELSE IF op = "reset" /\ m.kind = "ok"
              THEN /\ respLines' = respLines \cup {r.val}
                   /\ stage' = "low"
                   /\ UNCHANGED <<op, fn, out, single, ret, expLen, gotit, pc, written,
                                  waits, owed>>
              ELSE /\ respLines' = IF r.kind = "line" THEN respLines \cup {r.val} ELSE respLines
                   /\ out' = Returned(IF stage = "resp2" THEN "sleep" ELSE op, m)
                   /\ fn' = op
                   /\ op' = "none"
                   /\ UNCHANGED <<stage, single, ret, expLen, gotit, pc, written, waits, owed>>
    /\ UNCHANGED <<serialVars, readerVars, mainVars, calls, delivered>>
    /\ UNCHANGED <<dialect, strings, ops, downlink, evLines, before>>

\* _send_command_list after receive(single=False) has returned a batch or
\* raised Rak811TimeoutError; prelude holds the lines of the batches drained
\* before
SendCommandListNext ==
    /\ op = "send_command_list"
    /\ stage = "list"
    /\ pc[ProtoCaller] = "idle"
    /\ LET r == ret[ProtoCaller]
       IN  IF r.kind = "batch"
           THEN \E s \in {CommandListLoop(Flatten(arg.batches), r.val)} :
                    /\ arg' = [arg EXCEPT !.batches = Append(@, r.val)]
                    /\ taken' = taken + Len(r.val)
                    /\ IF s.kind = "more"
                       THEN /\ StartReceive(ProtoCaller, FALSE)
                            /\ UNCHANGED <<op, fn, out, respLines>>
                       ELSE /\ respLines' = respLines \cup {s.line}
                            /\ out' = s.res
                            /\ fn' = op
                            /\ op' = "none"
                            /\ UNCHANGED <<single, ret, expLen, gotit, pc>>
           ELSE /\ out' = TimeoutRes
                /\ fn' = op
                /\ op' = "none"
                /\ UNCHANGED <<arg, taken, respLines, single, ret, expLen, gotit, pc>>
    /\ UNCHANGED <<serialVars, readerVars, mainVars, calls, delivered>>
    /\ UNCHANGED <<dialect, written, strings, owed, stage, ops, downlink, evLines, before, waits>>

\* a method whose one wait is _get_events is called: receive(single=False);
\* wake_up writes '*' first, which after close() meets the closed port as
\* a command does
CallEvents(m) ==
    /\ m \in AwaitsEvents
    /\ Has(dialect, m)
    /\ op = "none"
    /\ pc[ProtoCaller] = "idle"
    /\ mpc = "idle"
    /\ ops < MaxOps
    /\ ops' = ops + 1
    /\ arg' = NoArg
    /\ before' = downlink
    /\ waits' = <<>>
    /\ \E accepted \in IF port_closes = 0 \/ m # "wake_up" THEN {TRUE} ELSE BOOLEAN :
           IF accepted
           THEN /\ strings' = strings + (IF m = "wake_up" THEN 1 ELSE 0)
                /\ op' = m
                /\ fn' = "none"
                /\ out' = [kind |-> "none"]
                /\ stage' = "events"
                /\ StartReceive(ProtoCaller, GetEventsSingle)
           ELSE /\ fn' = m
                /\ out' = Uncaught("PortNotOpenError")
                /\ UNCHANGED <<strings, op, stage, single, ret, expLen, gotit, pc>>
    /\ UNCHANGED <<serialVars, readerVars, mainVars, calls, delivered>>
    /\ UNCHANGED <<dialect, written, owed, downlink, evLines, respLines, taken>>

\* _get_events / _process_events after receive(single=False) has returned a
\* batch or raised Rak811TimeoutError, and what the method makes of it
EventsNext ==
    /\ op \in (AwaitsEvents \cup ThenEvents)
    /\ stage = "events"
    /\ pc[ProtoCaller] = "idle"
    /\ LET r == ret[ProtoCaller]
       IN  IF r.kind = "batch"
           THEN \E e \in {EventsOutcome(dialect, op, r.val)} :
                    /\ downlink' = downlink \o e.recs
                    /\ out' = e.res
                    /\ evLines' = evLines \cup Range(r.val)
                    /\ arg' = [arg EXCEPT !.batches = Append(@, r.val)]
                    /\ taken' = taken + Len(r.val)
           ELSE /\ out' = EventTimeout(dialect, op)
                /\ UNCHANGED <<downlink, evLines, arg, taken>>
    /\ fn' = op
    /\ op' = "none"
    /\ UNCHANGED <<serialVars, readerVars, mainVars, callerVars>>
    /\ UNCHANGED <<dialect, written, strings, owed, stage, ops, respLines, before, waits>>

\* the property nb_downlinks
nb_downlinks == Len(downlink)

\* get_downlink(), nb_downlinks, hard_reset(): no command, no receive();
\* the first two return at once, hard_reset() sets the reset pin low and
\* sleeps
CallLocal(m) ==
    /\ m \in {"get_downlink", "nb_downlinks", "hard_reset"}
    /\ op = "none"
    /\ pc[ProtoCaller] = "idle"
    /\ mpc = "idle"
    /\ ops < MaxOps
    /\ ops' = ops + 1
    /\ arg' = NoArg
    /\ before' = downlink
    /\ waits' = <<>>
    /\ IF m = "get_downlink"
       THEN \E r \in {GetDownlink(downlink)} :
                /\ fn' = m
                /\ out' = r.res
                /\ downlink' = r.left
                /\ UNCHANGED <<op, stage>>
       ELSE IF m = "nb_downlinks"
       THEN /\ fn' = m
            /\ out' = OkRes([isint |-> TRUE, val |-> nb_downlinks])
            /\ UNCHANGED <<downlink, op, stage>>
       ELSE /\ op' = m
            /\ stage' = "low"
            /\ fn' = "none"
            /\ out' = [kind |-> "none"]
            /\ UNCHANGED downlink
    /\ UNCHANGED <<serialVars, readerVars, mainVars, callerVars>>
    /\ UNCHANGED <<dialect, written, strings, owed, evLines, respLines, taken>>

\* hard_reset(), called or entered from reset(Reset.Module): its two sleeps
\* end one after the other, the reset pin going high between them; the
\* reader thread runs meanwhile
HardResetNext ==
    /\ op \in {"hard_reset", "reset"}
    /\ stage \in {"low", "high"}
    /\ IF stage = "low"
       THEN /\ stage' = "high"
            /\ UNCHANGED <<op, fn, out>>
       ELSE /\ fn' = op
            /\ out' = OkRes(<<>>)
            /\ op' = "none"
            /\ UNCHANGED stage
    /\ UNCHANGED <<serialVars, readerVars, mainVars, callerVars>>
    /\ UNCHANGED <<dialect, written, strings, owed, ops, downlink, evLines, respLines>>
    /\ UNCHANGED <<arg, taken, waits, before>>

\* close(): self._serial.close() is entered
CallClose ==
    /\ op = "none"
    /\ pc[ProtoCaller] = "idle"
    /\ mpc = "idle"
    /\ ops < MaxOps
    /\ closeCalls < MaxClose
    /\ ops' = ops + 1
    /\ op' = "close"
    /\ fn' = "none"
    /\ out' = [kind |-> "none"]
    /\ arg' = NoArg
    /\ before' = downlink
    /\ waits' = <<>>
    /\ closeCalls' = closeCalls + 1
    /\ mpc' = IF CloseEnters(alive) THEN "set" ELSE "idle"
    /\ UNCHANGED <<serialVars, readerVars, joins, callerVars>>
    /\ UNCHANGED <<dialect, written, strings, owed, stage, downlink, evLines, respLines, taken>>

\* close(): self._serial.close() has returned
CloseReturn ==
    /\ op = "close"
    /\ mpc = "idle"
    /\ fn' = op
    /\ out' = OkRes(<<>>)
    /\ op' = "none"
    /\ UNCHANGED <<serialVars, readerVars, mainVars, callerVars>>
    /\ UNCHANGED <<dialect, written, strings, owed, stage, ops, downlink, evLines, respLines>>
    /\ UNCHANGED <<arg, taken, waits, before>>

\* the steps of the foreground thread inside receive()
Blocked ==
    \/ RcvAcquire(ProtoCaller)
    \/ RcvCheck(ProtoCaller)
    \/ RcvNotified(ProtoCaller)
    \/ RcvTimeout(ProtoCaller)
    \/ RcvReacquire(ProtoCaller)

\* ------------------------------------------------------------------------
\* Specifications
\* ------------------------------------------------------------------------
\* Rak811Serial.__init__: the state after construction
InitSerial ==
    /\ rx = <<>>
    /\ emitted = <<>>
    /\ port_closes = 0
    /\ read_buffer = <<>>
    /\ lock = "free"
    /\ waiters = <<>>
    /\ signaled = {}
    /\ read_done = FALSE
    /\ alive = TRUE
    /\ rpc = "top"
    /\ rline = <<>>
    /\ burst = <<>>
    /\ mpc = "idle"
    /\ closeCalls = 0
    /\ joins = 0
    /\ pc = [c \in Callers |-> "idle"]
    /\ single = [c \in Callers |-> TRUE]
    /\ gotit = [c \in Callers |-> FALSE]
    /\ ret = [c \in Callers |-> NoRet]
    /\ calls = 0
    /\ expLen = [c \in Callers |-> 0]
    /\ delivered = <<>>
    /\ written = 0
    /\ strings = 0
    /\ owed = 0
    /\ op = "none"
    /\ stage = "resp"
    /\ ops = 0
    /\ downlink = <<>>
    /\ evLines = {}
    /\ respLines = {}

\* Rak811.__init__: no method has been called
NoCalls ==
    /\ fn = "none"
    /\ arg = NoArg
    /\ out = [kind |-> "none"]
    /\ taken = 0
    /\ waits = <<>>
    /\ before = <<>>

\* the serial layer with its callers: the module emits tagged lines and noise
Init ==
    /\ InitSerial
    /\ NoCalls
    /\ dialect = "A"
    /\ keep_untagged \in BOOLEAN
    /\ vocab \in {{RawOK, RawBanner}, {RawBanner}}

Next ==
    \/ \E l \in AllRaw : Emit(l)
    \/ Reader
    \/ \E c \in Callers : Receive(c)

Spec == Init /\ [][Next]_vars

\* the reader alone: every kind of line, no caller consuming
InitReader ==
    /\ InitSerial
    /\ NoCalls
    /\ dialect = "A"
    /\ keep_untagged \in BOOLEAN
    /\ vocab = AllRaw

NextReader ==
    \/ \E l \in AllRaw : Emit(l)
    \/ Reader
    \/ Close

SpecReader == InitReader /\ [][NextReader]_vars

\* the protocol layer over the serial layer, in either dialect
InitProto ==
    /\ InitSerial
    /\ NoCalls
    /\ dialect \in {"A", "B"}
    /\ keep_untagged = (dialect = "B")
    /\ vocab = Unsolicited(dialect)

NextProto ==
    \/ \E l \in Replies("A") \cup Replies("B") \cup Unsolicited("A") \cup Unsolicited("B") :
           Emit(l)
    \/ \E l \in Replies(dialect) : ModReply(l)
    \/ Reader
    \/ Blocked
    \/ \E m \in ProtoMethods : CallCommand(m)
    \/ \E m \in ProtoMethods : CallEvents(m)
    \/ SendCommandNext
    \/ EventsNext

SpecProto == InitProto /\ [][NextProto]_vars

\* the lines the module emits while the private methods are called, a small
\* set per behaviour
CallsVocab(d) ==
    IF d = "A"
    THEN {{RawEvt, RawAttn, RawOK0}, {RawErr, RawErrFF, RawEvt},
          {RawEvtTx, RawEvtData, RawEvtFail}, {RawEvtShort, RawEvtAck, RawEvtData},
          {RawEvtFail, RawEvtShort, RawEvtAck}, {RawEvtFail, RawEvtNoDataA, RawEvtShort}}
    ELSE {{RawBanner, RawEvtV3, RawOKV3}, {RawBanner, RawEvtV3, RawInitOK},
          {RawOKV3, RawErrV3, RawBanner}, {RawEvtV3, RawEvtNoData, RawBanner},
          {RawEvtSp, RawEvt, RawErrV3}}

\* the private methods of a Rak811 object over the serial layer, in either
\* dialect; the module emits the lines of the vocabulary at any time
InitCalls ==
    /\ InitSerial
    /\ NoCalls
    /\ dialect \in {"A", "B"}
    /\ keep_untagged = (dialect = "B")
    /\ vocab \in CallsVocab(dialect)

NextCalls ==
    \/ \E l \in vocab : Emit(l)
    \/ Reader
    \/ Blocked
    \/ \E m \in PrivateMethods : CallCommand(m)
    \/ \E m \in PrivateMethods : CallEvents(m)
    \/ SendCommandNext
    \/ SendCommandListNext
    \/ EventsNext

SpecCalls == InitCalls /\ [][NextCalls]_vars

\* the events the module emits while the public methods are called, and
\* its replies to their commands
LoraVocab(d) ==
    IF d = "A" THEN {{RawEvtShort, RawEvtAck}, {RawEvtShort, RawEvtFail}}
    ELSE {{RawEvtV3, RawBanner}}
LoraReplies(d) == IF d = "A" THEN {RawOKCfg, RawErr} ELSE Replies(d)

\* the public methods of one Rak811 object over the serial layer, in either
\* dialect; the module answers the commands and emits events at any time
InitLora ==
    /\ InitSerial
    /\ NoCalls
    /\ dialect \in {"A", "B"}
    /\ keep_untagged = (dialect = "B")
    /\ vocab \in LoraVocab(dialect)

NextLora ==
    \/ \E l \in vocab : Emit(l)
    \/ \E l \in LoraReplies(dialect) : ModReply(l)
    \/ Reader
    \/ Blocked
    \/ \E m \in LoraMethods : CallCommand(m)
    \/ \E m \in LoraMethods : CallEvents(m)
    \/ \E m \in LoraMethods : CallLocal(m)
    \/ CallClose
    \/ CloseSet
    \/ CloseJoin
    \/ CloseSerial
    \/ CloseFlag
    \/ CloseReturn
    \/ SendCommandNext
    \/ SendCommandListNext
    \/ EventsNext
    \/ HardResetNext

SpecLora == InitLora /\ [][NextLora]_vars

\* the public methods that are commands to get or set a value, txc and
\* wake_up over the serial layer; the module answers with a short text, a text of six fields
\* or an error
InitApi ==
    /\ InitSerial
    /\ NoCalls
    /\ dialect \in {"A", "B"}
    /\ keep_untagged = (dialect = "B")
    /\ vocab = IF dialect = "A" THEN {RawEvtP2P, RawEvtFail} ELSE {RawBanner}

NextApi ==
    \/ \E l \in vocab : Emit(l)
    \/ \E l \in Replies(dialect) \cup LoraReplies(dialect) : ModReply(l)
    \/ Reader
    \/ Blocked
    \/ \E m \in ApiMethods : CallCommand(m)
    \/ \E m \in ApiMethods : CallEvents(m)
    \/ SendCommandNext
    \/ SendCommandListNext
    \/ EventsNext
    \/ HardResetNext

SpecApi == InitApi /\ [][NextApi]_vars

\* one caller and the reader under fair scheduling: a thread that can take a
\* step eventually takes it, and a timed wait eventually expires
InitFair ==
    /\ InitSerial
    /\ NoCalls
    /\ dialect = "A"
    /\ keep_untagged = FALSE
    /\ vocab \in {{RawOK}, {RawBanner}}

NextFair ==
    \/ \E l \in AllRaw : Emit(l)
    \/ Reader
    \/ Receive("c1")

Fairness ==
    /\ WF_vars(Reader)
    /\ WF_vars(RcvAcquire("c1") \/ RcvCheck("c1") \/ RcvNotified("c1")
               \/ RcvTimeout("c1") \/ RcvReacquire("c1"))

SpecFair == InitFair /\ [][NextFair]_vars /\ Fairness

\* one caller, the reader and close() under the same fair scheduling
NextClose ==
    \/ \E l \in AllRaw : Emit(l)
    \/ Reader
    \/ Receive("c1")
    \/ Close

SpecClose == InitFair /\ [][NextClose]_vars /\ Fairness

\* close() and the reader under fair scheduling, the caller only as far as
\* it runs: a caller that holds the lock goes on to release it, but its
\* timed wait need never expire and it need never be scheduled again
FairnessStop ==
    /\ WF_vars(Reader)
    /\ WF_vars(CloseSet \/ CloseJoin \/ CloseSerial \/ CloseFlag)
    /\ WF_vars(RcvCheck("c1"))

SpecStop == InitFair /\ [][NextClose]_vars /\ FairnessStop

\* ------------------------------------------------------------------------
\* Properties
\* ------------------------------------------------------------------------
\* the raw lines the reader has still to classify: the line in hand, then
\* the transport input buffer
Pending == (IF rpc \in {"lock", "classify"} THEN <<rline>> ELSE <<>>) \o rx

ReaderIdle == rpc \in {"top", "readline", "exit"}

\* C1: with no caller consuming, the Pending Buffer together with the lines
\* still to be classified always equals the kept (tagged) lines of the
\* module's output in their original order, however the output was split
\* into bursts; once everything is processed the buffer is exactly that
\* subsequence.
C1_BurstDrainOrder ==
    /\ read_buffer \o KeptOf(keep_untagged, Pending) = KeptOf(keep_untagged, emitted)
    /\ (ReaderIdle /\ rx = <<>>) => read_buffer = KeptOf(keep_untagged, emitted)

C1_Witness ==
    /\ ~keep_untagged
    /\ ReaderIdle
    /\ rx = <<>>
    /\ emitted = <<RawEvt, RawBanner, RawOK>>
    /\ read_buffer = <<Decode(RawEvt), Decode(RawOK)>>

\* decoded lines of a sequence of raw lines that begin with one of the three
\* markers OK, ERROR, at+recv=
RECURSIVE MarkedOf(_)
MarkedOf(raws) ==
    IF raws = <<>> THEN <<>>
    ELSE (IF MatchTagged_literal(Decode(Head(raws))) THEN <<Decode(Head(raws))>> ELSE <<>>)
         \o MarkedOf(Tail(raws))

\* C8: with keep_untagged off a line is appended if and only if it begins
\* with OK, ERROR or at+recv=: the buffer and the lines still to classify
\* hold exactly the marked lines of the output.
C8_AppendIffMarker ==
    ~keep_untagged => read_buffer \o MarkedOf(Pending) = MarkedOf(emitted)

\* what the buffer must hold for a sequence of raw lines: a line with a
\* non-ASCII byte counts as the sentinel, every other line as itself
\* without its end-of-line characters
RECURSIVE Expected(_, _)
Expected(keep, raws) ==
    IF raws = <<>> THEN <<>>
    ELSE LET raw == Head(raws)
             bad == \E i \in 1..Len(raw) : raw[i] \in NonAscii
             txt == IF bad THEN <<"?">> ELSE RStrip(raw)
         IN  (IF bad
              THEN (IF keep THEN <<txt>> ELSE <<>>)
              ELSE (IF Kept(keep, txt) THEN <<txt>> ELSE <<>>))
             \o Expected(keep, Tail(raws))

\* C9: a line that fails ASCII decoding becomes the sentinel, which matches
\* no marker: it is dropped when keep_untagged is off and buffered as "?"
\* when it is on; the reader goes on (it ends only on the stop flag) and the
\* lines after it are buffered in order.
C9_DecodeFailureIsSentinel ==
    /\ ~MatchTagged(SENTINEL)
    /\ read_buffer \o Expected(keep_untagged, Pending) = Expected(keep_untagged, emitted)
    /\ rpc = "exit" => read_done

C9_Witness ==
    /\ keep_untagged
    /\ ReaderIdle
    /\ rx = <<>>
    /\ emitted = <<RawGarbage, RawOK>>
    /\ read_buffer = <<SENTINEL, <<"O", "K">>>>

\* C10: close() is idempotent: the reader is joined at most once and the
\* transport closed at most once, and once a close() has completed every
\* further close() leaves alive false, one join and one transport close.
C10_CloseIdempotent ==
    /\ joins <= 1
    /\ port_closes <= 1
    /\ (closeCalls >= 1 /\ mpc = "idle") => (~alive /\ joins = 1 /\ port_closes = 1)

C10_Witness ==
    /\ closeCalls >= 2
    /\ mpc = "idle"
    /\ ~alive
    /\ port_closes = 1

\* C2: while a burst is in progress the reader holds the lock, no receive()
\* returns and no line leaves the buffer: the buffer only grows.
C2_NoReturnMidBurst ==
    [][InBurst =>
         /\ lock = "reader"
         /\ \A c \in Callers : pc'[c] = "idle" => pc[c] = "idle"
         /\ delivered' = delivered
         /\ Len(read_buffer') >= Len(read_buffer)
         /\ SubSeq(read_buffer', 1, Len(read_buffer)) = read_buffer]_vars

C2_Witness ==
    /\ rpc = "more"
    /\ rx # <<>>
    /\ Len(burst) >= 1
    /\ \E c \in Callers : pc[c] = "reacq"
    /\ \E c \in Callers : pc[c] = "enter"

\* a caller completes a receive() with data in this step
Takes(c) == pc[c] = "check" /\ pc'[c] = "idle"

\* C4: pop_one on a non-empty buffer returns exactly the oldest entry and
\* leaves the others unchanged and in order, so the lines handed out by
\* successive pop_one calls followed by the buffer are always the appended
\* lines in append order.
C4_PopOneOldest ==
    [][\A c \in Callers :
         (Takes(c) /\ single[c]) =>
             /\ read_buffer # <<>>
             /\ ret'[c] = [kind |-> "line", val |-> read_buffer[1]]
             /\ read_buffer' = SubSeq(read_buffer, 2, Len(read_buffer))
             /\ delivered' \o read_buffer' = delivered \o read_buffer]_vars

C4_Witness ==
    /\ \E c \in Callers : ret[c] = [kind |-> "line", val |-> <<"O", "K">>]
    /\ Len(delivered) = 1
    /\ Len(read_buffer) >= 1

\* C5: drain_all returns every entry of the buffer as one ordered batch and
\* leaves the buffer empty.
C5_DrainAllEmpties ==
    [][\A c \in Callers :
         (Takes(c) /\ ~single[c]) =>
             /\ read_buffer # <<>>
             /\ ret'[c] = [kind |-> "batch", val |-> read_buffer]
             /\ read_buffer' = <<>>
             /\ delivered' = delivered \o read_buffer]_vars

C5_Witness ==
    /\ \E c \in Callers : ret[c].kind = "batch" /\ Len(ret[c].val) >= 2
    /\ read_buffer = <<>>

\* C6: receive() raises Timeout only if the buffer was empty when its timed
\* wait expired.
C6_TimeoutOnlyIfEmpty ==
    \A c \in Callers : ret[c].kind = "timeout" => expLen[c] = 0

\* nothing the module emits in this behaviour is ever buffered
Quiet == ~keep_untagged /\ \A l \in vocab : ~MatchTagged(Decode(l))

\* C7: a receive() waiting on an empty buffer, while nothing the module emits
\* is buffered, eventually raises Timeout and the buffer is still empty.
C7_QuietWaitTimesOut ==
    \A c \in Callers :
        (Quiet /\ pc[c] = "waiting")
            ~> (pc[c] = "idle" /\ ret[c].kind = "timeout" /\ read_buffer = <<>>)

C7_Witness ==
    /\ Quiet
    /\ Len(emitted) >= 2
    /\ rx = <<>>
    /\ ret["c1"].kind = "timeout"
    /\ ~single["c1"]
    /\ read_buffer = <<>>

\* ------------------------------------------------------------------------
\* C3: a response line (one that begins with the dialect's OK or ERROR
\* marker) is never consumed by the event processing as if it were an event,
\* and an event line (one that begins with at+recv=) is never taken by
\* _send_command as its response.
\* ------------------------------------------------------------------------
IsResponseLine(d, line) ==
    IF d = "A"
    THEN StartsWith(line, RESPONSE_OK) \/ StartsWith(line, RESPONSE_ERROR)
    ELSE \/ StartsWith(line, RESPONSE_OK_V3)
         \/ StartsWith(line, RESPONSE_INIT_OK)
         \/ StartsWith(line, RESPONSE_ERROR_V3)

IsEventLine(line) == StartsWith(line, RESPONSE_EVENT)

C3_ResponsesAndEventsNeverConfused ==
    /\ \A line \in evLines : ~IsResponseLine(dialect, line)
    /\ \A line \in respLines : ~IsEventLine(line)

\* ------------------------------------------------------------------------
\* C11: close() sets the stop flag, joins the reader and only then closes
\* the transport: every step in which the reader reads a line from the
\* transport or queries its bytes-waiting happens while the transport is
\* still open, and the step that closes the transport happens with the stop
\* flag set, the reader terminated and the join done.
\* ------------------------------------------------------------------------
ReaderTouchesPort == rpc \in {"readline", "more"} /\ rpc' # rpc

C11_ReaderNeverUsesClosedPort ==
    [][/\ ReaderTouchesPort => port_closes = 0
       /\ port_closes' # port_closes => read_done /\ rpc = "exit" /\ joins' > 0]_vars

\* the transport has been closed after the reader had read and kept a line
C11_Witness == port_closes = 1 /\ rpc = "exit" /\ read_buffer # <<>>

\* ------------------------------------------------------------------------
\* C12: Dialect A _send_command decides by the first non-event line it pops:
\* a line beginning with OK makes it return the rest of the line ("OK0"
\* gives "0"); a line beginning with ERROR makes it raise Rak811ResponseError
\* whose code is the integer parsed from the remainder ("ERROR-1" gives -1);
\* any other line makes it raise Rak811ResponseError carrying the raw line
\* text as its code.
\* ------------------------------------------------------------------------
NotEvent(line) == ~IsEventLine(line)
NonEvents(lines) == SelectSeq(lines, NotEvent)

C12_Expected(line) ==
    IF StartsWith(line, <<"O", "K">>)
    THEN [kind |-> "ok", val |-> SubSeq(line, 3, Len(line))]
    ELSE IF StartsWith(line, <<"E", "R", "R", "O", "R">>)
    THEN [kind |-> "response_error",
          errno |-> [isint |-> TRUE, val |-> IntVal(SubSeq(line, 6, Len(line)))]]
    ELSE [kind |-> "response_error", errno |-> [isint |-> FALSE, val |-> line]]

C12_ResponseMappingA ==
    (fn = "send_command" /\ dialect = "A") =>
        IF NonEvents(arg.lines) = <<>>
        THEN out = [kind |-> "timeout"]
        ELSE /\ out = C12_Expected(Head(NonEvents(arg.lines)))
             /\ NonEvents(arg.lines) = <<arg.lines[Len(arg.lines)]>>

\* each of the three cases after a skipped event: OK0, ERROR-1, another line
C12_Witness ==
    /\ fn = "send_command" /\ dialect = "A"
    /\ Len(arg.lines) = 3
    /\ IsEventLine(arg.lines[1]) /\ IsEventLine(arg.lines[2])
    /\ out = [kind |-> "response_error",
              errno |-> [isint |-> FALSE, val |-> <<"a", "t", "t", "n">>]]

\* ------------------------------------------------------------------------
\* C13: Dialect A _send_command pops and silently skips every event line
\* that precedes the response, however many there are: popping an event line
\* changes neither the outcome, nor the downlink list, nor the read buffer
\* (the line is not put back), and the call pops again; the call ends on the
\* first non-event line, whose text alone decides the outcome.
\* ------------------------------------------------------------------------
ResponseStep ==
    /\ op \in {"send_command", "send"}
    /\ stage = "resp"
    /\ pc[ProtoCaller] = "idle"
    /\ ret[ProtoCaller].kind = "line"
    /\ (pc'[ProtoCaller] # "idle" \/ op' # op)

C13_EventsSkippedA ==
    [][(dialect = "A" /\ ResponseStep) =>
          IF IsEventLine(ret[ProtoCaller].val)
          THEN /\ pc'[ProtoCaller] = "enter" /\ single'[ProtoCaller]
               /\ op' = op /\ stage' = stage /\ out' = out
               /\ downlink' = downlink
               /\ read_buffer' = read_buffer
               /\ evLines' = evLines /\ respLines' = respLines
          ELSE /\ respLines' = respLines \cup {ret[ProtoCaller].val}
               /\ downlink' = downlink
               /\ op = "send_command" =>
                      op' = "none" /\ out' = C12_Expected(ret[ProtoCaller].val)]_vars

\* one command popped two events and then its reply, and returned "0"
C13_Witness ==
    /\ dialect = "A" /\ ops = 1 /\ op = "none"
    /\ Len(delivered) = 3
    /\ IsEventLine(delivered[1]) /\ IsEventLine(delivered[2])
    /\ out = [kind |-> "ok", val |-> <<"0">>]
    /\ downlink = <<>> /\ read_buffer = <<>>

\* ------------------------------------------------------------------------
\* C14: in Dialect B an event line popped while _send_command waits for the
\* OK/ERROR reply is re-queued for later retrieval: between protocol calls,
\* every event line handed to the driver has either been consumed by the
\* event processing or is in the read buffer again, to be returned by a later
\* _get_events.
\* ------------------------------------------------------------------------
C14_SkippedEventsRequeuedB ==
    (dialect = "B" /\ op = "none") =>
        \A i \in 1..Len(delivered) :
            IsEventLine(delivered[i]) =>
                delivered[i] \in (evLines \cup Range(read_buffer))

\* ------------------------------------------------------------------------
\* C15: Dialect B _send_command skips every popped line that does not start
\* with "OK ", "Initialization OK" or "ERROR:" and keeps popping; it returns
\* the remainder after the marker of the first "OK " / "Initialization OK"
\* line, raises Rak811ResponseError with the parsed code for the first
\* "ERROR:" line, and otherwise ends only with Timeout: an unrecognized line
\* never makes it raise.
\* ------------------------------------------------------------------------
IsResponseLineB(line) == IsResponseLine("B", line)

C15_Expected(line) ==
    IF StartsWith(line, <<"E", "R", "R", "O", "R", ":">>)
    THEN [kind |-> "response_error",
          errno |-> [isint |-> TRUE, val |-> IntVal(SubSeq(line, 7, Len(line)))]]
    ELSE IF StartsWith(line, <<"O", "K", " ">>)
    THEN [kind |-> "ok", val |-> SubSeq(line, 4, Len(line))]
    ELSE [kind |-> "ok", val |-> SubSeq(line, 18, Len(line))]

C15_ResponseMappingB ==
    (fn = "send_command" /\ dialect = "B") =>
        LET ls == arg.lines
            resp == SelectSeq(ls, IsResponseLineB)
        IN  IF resp = <<>>
            THEN out = [kind |-> "timeout"]
            ELSE /\ out = C15_Expected(Head(resp))
                 /\ resp = <<ls[Len(ls)]>>

\* an untagged line and an event were skipped before the reply "OK V3"
C15_Witness ==
    /\ fn = "send_command" /\ dialect = "B"
    /\ arg.lines = <<<<"W", "e", "l", "c", "o", "m", "e">>, Decode(RawEvtV3), Decode(RawOKV3)>>
    /\ out = [kind |-> "ok", val |-> <<"V", "3">>]

\* ------------------------------------------------------------------------
\* _send_command_list: the terms of the properties below.
\*   Drained:   the lines of the batches the call drained, in arrival order
\*   TermAt(l): the position in l of the first OK / Initialization OK / ERROR: line
\*   Unmarked:  a terminal line without its marker
\* ------------------------------------------------------------------------
Drained == Flatten(arg.batches)

TermAt(ls) ==
    CHOOSE i \in 1..Len(ls) :
        IsResponseLineB(ls[i]) /\ \A j \in 1..(i - 1) : ~IsResponseLineB(ls[j])

Unmarked(line) ==
    IF StartsWith(line, <<"O", "K", " ">>) THEN SubSeq(line, 4, Len(line))
    ELSE SubSeq(line, 18, Len(line))

ListReturned == fn = "send_command_list" /\ out.kind = "ok"

\* ------------------------------------------------------------------------
\* C16 (as stated): _send_command_list returns a list whose last element is
\* the terminal marker line ("OK " or "Initialization OK") with its marker
\* stripped, preceded by exactly the informational lines received before the
\* terminal marker, in arrival order.
\* ------------------------------------------------------------------------
C16_TerminalIsLast ==
    ListReturned =>
        LET k == TermAt(Drained)
        IN  out.val = SubSeq(Drained, 1, k - 1) \o <<Unmarked(Drained[k])>>

\* C16 (amended): the returned list holds the terminal marker line with its
\* marker stripped, preceded by exactly the informational lines received
\* before it, in arrival order; the terminal line is the last element exactly
\* when no line follows it in the drained batch it came in.
C16_TerminalAfterPrelude ==
    ListReturned =>
        LET k == TermAt(Drained)
        IN  /\ Len(out.val) >= k
            /\ SubSeq(out.val, 1, k) =
                   SubSeq(Drained, 1, k - 1) \o <<Unmarked(Drained[k])>>
            /\ (Len(out.val) = k) <=> (Len(Drained) = k)

\* two informational lines, then "Initialization OK " as the last line
C16_Witness ==
    /\ ListReturned
    /\ Len(arg.batches) = 2
    /\ out.val = <<<<"W", "e", "l", "c", "o", "m", "e">>, Decode(RawEvtV3), <<" ">>>>

\* ------------------------------------------------------------------------
\* C17: _send_command_list returns every line it drained after writing the
\* command, in arrival order and across as many batches as are needed to
\* reach a terminal marker, with exactly one line changed (the first "OK " /
\* "Initialization OK" line, whose marker is removed); lines that follow the
\* terminal marker in its batch are returned after it; no drained line is
\* dropped, and it drains no batch beyond the one holding the terminal line.
\* ------------------------------------------------------------------------
C17_ListIsAllDrainedLines ==
    ListReturned =>
        LET k == TermAt(Drained)
            n == Len(arg.batches)
        IN  /\ out.val = [Drained EXCEPT ![k] = Unmarked(Drained[k])]
            /\ k > Len(Flatten(SubSeq(arg.batches, 1, n - 1)))

\* an informational batch, then a batch with "OK V3" followed by another line
C17_Witness ==
    /\ ListReturned
    /\ arg.batches = <<<<Decode(RawBanner)>>, <<Decode(RawOKV3), Decode(RawBanner)>>>>
    /\ out.val = <<Decode(RawBanner), <<"V", "3">>, Decode(RawBanner)>>

\* ------------------------------------------------------------------------
\* C18: _send_command_list raises Rak811ResponseError carrying the parsed
\* code whenever an "ERROR:" line occurs at any position among the lines it
\* received for the command, and returns no list in that case.
\* ------------------------------------------------------------------------
IsErrorLineB(line) == StartsWith(line, <<"E", "R", "R", "O", "R", ":">>)

C18_ErrorAnywhereRaises ==
    (fn = "send_command_list" /\ SelectSeq(Drained, IsErrorLineB) # <<>>) =>
        out = C15_Expected(Head(SelectSeq(Drained, IsErrorLineB)))

\* ------------------------------------------------------------------------
\* C19: _get_events drains the read buffer with one receive(single=False)
\* and returns one element per drained line in arrival order: an event line
\* has exactly its at+recv= prefix removed, a line without that prefix is
\* returned unchanged; if no line arrives within the timeout the Timeout
\* propagates and nothing is returned.
\* ------------------------------------------------------------------------
C19_Expected(line) == IF IsEventLine(line) THEN SubSeq(line, 9, Len(line)) ELSE line

C19_GetEventsStripsPrefixOnly ==
    (fn = "get_events") =>
        IF arg.batches = <<>>
        THEN out = [kind |-> "timeout"]
        ELSE /\ out.kind = "ok"
             /\ out.val = [i \in 1..Len(arg.batches[1]) |-> C19_Expected(arg.batches[1][i])]
             /\ Len(arg.batches) = 1

\* ------------------------------------------------------------------------
\* C20: Dialect A _process_events drains one batch and treats each event by
\* its leading status code: status 0 (received data) appends exactly one
\* Downlink Record, status 1 and 2 (transmit confirmed / unconfirmed) are
\* accepted silently, and any other status makes the call raise
\* Rak811EventError carrying that status.
\* ------------------------------------------------------------------------
\* the records the call appended to the downlink list
Recs == SubSeq(downlink, Len(before) + 1, Len(downlink))

C20_Status(line) == IntVal(Split(SubSeq(line, 9, Len(line)), ",")[1])
C20_IsData(line) == C20_Status(line) = 0
C20_IsFailure(line) == C20_Status(line) \notin {0, 1, 2}

C20_StatusDecidesA ==
    (/\ fn = "process_events" /\ dialect = "A" /\ arg.batches # <<>>
     /\ \A i \in 1..Len(arg.batches[1]) : IsEventLine(arg.batches[1][i])) =>
        /\ Len(Recs) = Len(SelectSeq(arg.batches[1], C20_IsData))
        /\ out = IF SelectSeq(arg.batches[1], C20_IsFailure) = <<>>
                     THEN [kind |-> "ok", val |-> <<>>]
                     ELSE [kind |-> "event_error",
                           errno |-> [isint |-> TRUE,
                                      val |-> C20_Status(Head(SelectSeq(arg.batches[1], C20_IsFailure)))]]
        /\ Len(arg.batches) = 1

\* What holds: the same when every received-data event of the batch is
\* complete, that is, carries what _add_downlink reads of it: the port, an
\* integer length and, when the length is greater than 0, the data field.
C20_Complete(line) ==
    LET F == Split(SubSeq(line, 9, Len(line)), ",")
        k == IF Len(F) - 2 > 2 THEN 5 ELSE 3
    IN  C20_IsData(line) =>
            /\ Len(F) >= k
            /\ IntOK(F[k])
            /\ IntVal(F[k]) > 0 => Len(F) > k

C20_StatusDecidesCompleteA ==
    (/\ fn = "process_events" /\ dialect = "A" /\ arg.batches # <<>>
     /\ \A i \in 1..Len(arg.batches[1]) :
            IsEventLine(arg.batches[1][i]) /\ C20_Complete(arg.batches[1][i])) =>
        /\ Len(Recs) = Len(SelectSeq(arg.batches[1], C20_IsData))
        /\ out = IF SelectSeq(arg.batches[1], C20_IsFailure) = <<>>
                     THEN [kind |-> "ok", val |-> <<>>]
                     ELSE [kind |-> "event_error",
                           errno |-> [isint |-> TRUE,
                                      val |-> C20_Status(Head(SelectSeq(arg.batches[1], C20_IsFailure)))]]
        /\ Len(arg.batches) = 1

\* ------------------------------------------------------------------------
\* C21: Dialect A _add_downlink picks the layout of a received-data event by
\* the number of fields alone: with more than two fields after the port, rssi
\* and snr are the next two fields and len the one after them; otherwise rssi
\* and snr are 0 and len is the field right after the port. In both layouts
\* the data is the decoded hex field following len when len > 0.
\* ------------------------------------------------------------------------
C21_Int(n) == [isint |-> TRUE, val |-> n]
C21_Fields(line) == Split(SubSeq(line, 9, Len(line)), ",")
C21_Expected(line) ==
    LET F == C21_Fields(line)
        long == Len(F) - 2 > 2
        k == IF long THEN 5 ELSE 3
        len == IntVal(F[k])
    IN  [port |-> C21_Int(IntVal(F[2])),
         rssi |-> C21_Int(IF long THEN IntVal(F[3]) ELSE 0),
         snr |-> C21_Int(IF long THEN IntVal(F[4]) ELSE 0),
         len |-> C21_Int(len),
         data |-> IF len > 0 THEN FromHex(F[k + 1]) ELSE <<>>]

C21_LayoutByFieldCountA ==
    (/\ fn = "process_events" /\ dialect = "A" /\ arg.batches # <<>>
     /\ \A i \in 1..Len(arg.batches[1]) : IsEventLine(arg.batches[1][i])) =>
        LET data == SelectSeq(arg.batches[1], C20_IsData)
        IN  /\ Len(Recs) = Len(data)
            /\ Recs = [i \in 1..Len(data) |-> C21_Expected(data[i])]

\* What holds: the same when every received-data event of the batch is
\* complete.
C21_LayoutOfCompleteA ==
    (/\ fn = "process_events" /\ dialect = "A" /\ arg.batches # <<>>
     /\ \A i \in 1..Len(arg.batches[1]) :
            IsEventLine(arg.batches[1][i]) /\ C20_Complete(arg.batches[1][i])) =>
        LET data == SelectSeq(arg.batches[1], C20_IsData)
        IN  Recs = [i \in 1..Len(data) |-> C21_Expected(data[i])]

\* ------------------------------------------------------------------------
\* C22: Dialect B _process_events: an event matching
\* (<port>,)?<rssi>,<snr>,<len>(:<hex-data>)? appends one Downlink Record with
\* exactly those values and the decoded data ("1,-65,6,2:4865" gives port 1,
\* rssi -65, snr 6, len 2, data 0x48 0x65); when the port is omitted the
\* record's port is 0.
\* ------------------------------------------------------------------------
C22_Event(line) == IF IsEventLine(line) THEN SubSeq(line, 9, Len(line)) ELSE line
C22_Matches(line) == B_Match(C22_Event(line)).ok
C22_Expected(line) ==
    LET ev == C22_Event(line)
        k == FirstColon(ev)
        f == Split(IF k = 0 THEN ev ELSE SubSeq(ev, 1, k - 1), ",")
        n == Len(f)
        hex == IF k = 0 THEN <<>> ELSE SubSeq(ev, k + 1, Len(ev))
    IN  [port |-> C21_Int(IF n = 4 THEN IntVal(f[1]) ELSE 0),
         rssi |-> C21_Int(IntVal(f[n - 2])),
         snr |-> C21_Int(IntVal(f[n - 1])),
         len |-> C21_Int(IntVal(f[n])),
         data |-> IF IntVal(f[n]) > 0 /\ HexOK(hex) THEN FromHex(hex) ELSE <<>>]

C22_MatchingEventAppendsB ==
    (/\ fn = "process_events" /\ dialect = "B" /\ arg.batches # <<>>
     /\ \A i \in 1..Len(arg.batches[1]) : C22_Matches(arg.batches[1][i])) =>
        /\ Recs = [i \in 1..Len(arg.batches[1]) |-> C22_Expected(arg.batches[1][i])]
        /\ out = [kind |-> "ok", val |-> <<>>]

\* the same, for events that carry their data whenever len > 0
C22_HasItsData(line) ==
    LET m == B_Match(C22_Event(line)) IN m.ok /\ (IntVal(m.length) > 0 => m.hasData)
C22_MatchingEventWithDataAppendsB ==
    (/\ fn = "process_events" /\ dialect = "B" /\ arg.batches # <<>>
     /\ \A i \in 1..Len(arg.batches[1]) : C22_HasItsData(arg.batches[1][i])) =>
        /\ Recs = [i \in 1..Len(arg.batches[1]) |-> C22_Expected(arg.batches[1][i])]
        /\ out = [kind |-> "ok", val |-> <<>>]

\* ------------------------------------------------------------------------
\* C23: Dialect B _process_events: a drained line that does not match the
\* event grammar makes the call raise the Invalid-Event Rak811ResponseError
\* (code 998), and no Downlink Record is created for that line: the records
\* appended are those of the lines before it.
\* ------------------------------------------------------------------------
C23_FirstBad(batch) ==
    CHOOSE k \in 1..Len(batch) :
        ~C22_Matches(batch[k]) /\ \A j \in 1..(k - 1) : C22_Matches(batch[j])

C23_NonMatchingLineRaisesB ==
    (/\ fn = "process_events" /\ dialect = "B" /\ arg.batches # <<>>
     /\ \E i \in 1..Len(arg.batches[1]) : ~C22_Matches(arg.batches[1][i])) =>
        LET k == C23_FirstBad(arg.batches[1])
        IN  /\ out = [kind |-> "response_error", errno |-> C21_Int(998)]
            /\ Recs = [i \in 1..(k - 1) |-> C22_Expected(arg.batches[1][i])]

\* the same, when the events before that line carry their data
C23_NonMatchingLineAfterDataRaisesB ==
    (/\ fn = "process_events" /\ dialect = "B" /\ arg.batches # <<>>
     /\ \E i \in 1..Len(arg.batches[1]) : ~C22_Matches(arg.batches[1][i])
     /\ \A j \in 1..(C23_FirstBad(arg.batches[1]) - 1) : C22_HasItsData(arg.batches[1][j])) =>
        LET k == C23_FirstBad(arg.batches[1])
        IN  /\ out = [kind |-> "response_error", errno |-> C21_Int(998)]
            /\ Recs = [i \in 1..(k - 1) |-> C22_Expected(arg.batches[1][i])]

\* ------------------------------------------------------------------------
\* C24: get_downlink returns the downlink records oldest-first: each call on
\* a non-empty list removes and returns the oldest record and lowers
\* nb_downlinks by exactly one; on an empty list it returns None and leaves
\* the list empty, so nb_downlinks is never negative.
\* ------------------------------------------------------------------------
\* a call of f returns or raises in this step
C24_Call(f) == fn' = f /\ (op = f \/ (op = "none" /\ op' = "none" /\ ops' # ops))

C24_GetDownlinkOldestFirst ==
    [][C24_Call("get_downlink") =>
          IF nb_downlinks = 0
          THEN out'.val = None /\ downlink' = <<>>
          ELSE /\ out'.val = downlink[1]
               /\ downlink' = SubSeq(downlink, 2, Len(downlink))
               /\ nb_downlinks' = nb_downlinks - 1]_vars

\* two records pending, the older one returned and the newer one left
C24_Witness ==
    /\ fn = "get_downlink" /\ dialect = "A"
    /\ out.val = C21_Expected(Decode(RawEvtShort))
    /\ downlink = <<C21_Expected(Decode(RawEvtAck))>>

\* ------------------------------------------------------------------------
\* C25: the downlink list starts empty and changes only in two ways: it grows
\* by exactly one record per successfully parsed received-data event, and it
\* shrinks by one per get_downlink; no other operation (a command, awaiting
\* a response, a Timeout, a response or event error, close) removes,
\* reorders or alters a pending record.
\* ------------------------------------------------------------------------
\* the records of the received-data events of a drained batch that were
\* parsed: in dialect A the events of status 0, in dialect B the events
\* before the first line that is not one
C25_IsData(line) ==
    /\ IsEventLine(line)
    /\ IntOK(Split(SubSeq(line, 9, Len(line)), ",")[1])
    /\ C20_IsData(line)
C25_Parsed(d, batch) ==
    IF d = "A"
    THEN LET data == SelectSeq(batch, C25_IsData)
         IN  [i \in 1..Len(data) |-> C21_Expected(data[i])]
    ELSE LET n == IF \E i \in 1..Len(batch) : ~C22_Matches(batch[i])
                  THEN C23_FirstBad(batch) - 1 ELSE Len(batch)
         IN  [i \in 1..n |-> C22_Expected(batch[i])]
\* the batch that a send or an rx_get / receive_p2p ending in this step drained
C25_Drained ==
    IF (C24_Call("send") \/ C24_Call("rx_get")) /\ arg'.batches # <<>>
    THEN arg'.batches[1] ELSE <<>>

C25_DownlinkFrame ==
    /\ downlink = <<>>
    /\ [][IF C24_Call("get_downlink")
          THEN downlink' = SubSeq(downlink, 2, Len(downlink))
          ELSE downlink' = downlink \o C25_Parsed(dialect, C25_Drained)]_vars

\* What holds: the list grows by one record per drained line that the event
\* processing takes for a received-data event, which in dialect A is every
\* line with the integer 0 before the first comma of what follows its first
\* eight characters, the late reply to a command included.
C25_TakenForData(line) ==
    LET t == Split(SubSeq(line, 9, Len(line)), ",")[1]
    IN  IntOK(t) /\ IntVal(t) = 0
C25_ParsedLines(d, batch) ==
    IF d = "A"
    THEN LET data == SelectSeq(batch, C25_TakenForData)
         IN  [i \in 1..Len(data) |-> C21_Expected(data[i])]
    ELSE C25_Parsed(d, batch)

C25_FrameOfParsedLines ==
    /\ downlink = <<>>
    /\ [][IF C24_Call("get_downlink")
          THEN downlink' = SubSeq(downlink, 2, Len(downlink))
          ELSE downlink' = downlink \o C25_ParsedLines(dialect, C25_Drained)]_vars

\* ------------------------------------------------------------------------
\* C26: one send-and-await-response (or -list) call writes its command line
\* to the transport exactly once, whatever the outcome (response, error or
\* Timeout); the command is never re-sent.
\* ------------------------------------------------------------------------
\* a send-and-await-response call starts in this step: a method that sends
\* a command is called, or the setter of rf_config goes on to its second one
C26_Starts == (op = "none" /\ op' \in SendsCommand) \/ (stage = "resp" /\ stage' = "resp2")

C26_WritesOnce ==
    [][IF C26_Starts THEN written' = written + 1 ELSE written' = written]_vars

\* the setter of rf_config that skipped an event, got the OK of its first
\* command and ended with Timeout after its second
C26_Witness ==
    /\ fn = "rf_config_set" /\ out.kind = "timeout" /\ written = 2
    /\ Len(arg.lines) = 2 /\ IsEventLine(arg.lines[1])

\* ------------------------------------------------------------------------
\* C27: a Timeout while waiting for events is swallowed by rx_get (dialect
\* A), receive_p2p (dialect B) and the event phase of dialect B send: the call
\* returns normally, the downlink list is unchanged, and a following
\* get_downlink on an empty list returns None; a Timeout while waiting for
\* the command's response in send still propagates.
\* ------------------------------------------------------------------------
C27_Answered(lines) ==
    \E i \in 1..Len(lines) :
        /\ StartsWith(lines[i], <<"O", "K">>)
        /\ \A j \in 1..(i - 1) : ~IsResponseLine(dialect, lines[j])
\* the call that has just ended waited for events and none came
C27_Swallowed ==
    /\ fn \in {"rx_get", "send"}
    /\ arg.batches = <<>>
    /\ fn = "send" => (dialect = "B" /\ C27_Answered(arg.lines))

C27_EventTimeoutSwallowed ==
    [][/\ (op # "none" /\ op' = "none" /\ C27_Swallowed') =>
            out' = [kind |-> "ok", val |-> <<>>] /\ downlink' = downlink
       /\ (C27_Swallowed /\ nb_downlinks = 0 /\ C24_Call("get_downlink")) =>
            out'.val = None
       /\ (op = "send" /\ stage = "resp" /\ op' = "none"
              /\ ret[ProtoCaller] = [kind |-> "timeout"]) =>
            out' = [kind |-> "timeout"] /\ downlink' = downlink]_vars

\* receive_p2p returned normally although nothing came, a record pending
C27_Witness ==
    /\ fn = "rx_get" /\ dialect = "B" /\ arg.batches = <<>>
    /\ out.kind = "ok" /\ nb_downlinks = 1

\* ------------------------------------------------------------------------
\* C28: join_otaa returns normally only after the join command was
\* acknowledged and every event of the first drained batch has status
\* JOINED_SUCCESS; if any event of that batch has another status it raises
\* Rak811EventError carrying the first such status, and if no event arrives
\* in time it raises Rak811TimeoutError.
\* ------------------------------------------------------------------------
\* the status of a drained line: the integer before the first comma of what
\* follows the at+recv= prefix, or that text itself when it is no integer
C28_Status(line) ==
    LET t == Split(SubSeq(line, 9, Len(line)), ",")[1]
    IN  IF IntOK(t) THEN C21_Int(IntVal(t)) ELSE [isint |-> FALSE, val |-> t]
C28_NotJoined(line) == C28_Status(line) # C21_Int(3)

C28_JoinOtaa ==
    fn = "join_otaa" =>
        /\ out.kind = "ok" =>
              /\ C27_Answered(arg.lines)
              /\ arg.batches # <<>>
              /\ \A i \in 1..Len(arg.batches[1]) : C28_Status(arg.batches[1][i]) = C21_Int(3)
        /\ (C27_Answered(arg.lines) /\ arg.batches # <<>>) =>
              LET bad == SelectSeq(arg.batches[1], C28_NotJoined)
              IN  out = IF bad = <<>> THEN [kind |-> "ok", val |-> <<>>]
                        ELSE [kind |-> "event_error", errno |-> C28_Status(bad[1])]
        /\ (C27_Answered(arg.lines) /\ arg.batches = <<>>) => out = [kind |-> "timeout"]

\* a join whose batch holds a JOINED_SUCCESS event followed by an event of
\* status 0
C28_Witness ==
    /\ fn = "join_otaa"
    /\ arg.batches = <<<<Decode(RawEvtFail), Decode(RawEvtShort)>>>>
    /\ out.kind = "event_error" /\ out.errno.val = 0

\* ------------------------------------------------------------------------
\* C29: with several foreground callers sharing one driver, every buffered
\* line is delivered to exactly one caller, and each drain_all batch is a
\* contiguous run of the arrival sequence: concurrent pop_one / drain_all
\* calls never split the buffer between them element by element.
\* ------------------------------------------------------------------------
\* the arrival sequence: the lines the reader appends, in order
C29_Arrived == KeptOf(keep_untagged, emitted)

\* every receive() that completes with data takes the run of the arrival
\* sequence that follows the lines handed out so far, which is the head of
\* the buffer (all of it for drain_all), and no other caller gets a line
C29_EachLineToOneCaller ==
    [][\A c \in Callers :
          Takes(c) =>
              LET got == TakenLines(ret'[c])
              IN  /\ got # <<>>
                  /\ got = SubSeq(C29_Arrived, Len(delivered) + 1, Len(delivered) + Len(got))
                  /\ delivered' = delivered \o got
                  /\ read_buffer = got \o read_buffer'
                  /\ ~single[c] => read_buffer' = <<>>
                  /\ \A o \in Callers \ {c} : ret'[o] = ret[o]]_vars

\* one caller popped the first line, the other drained the two that followed
C29_Witness ==
    /\ keep_untagged
    /\ \E c \in Callers, o \in Callers :
           /\ ret[c].kind = "line"
           /\ ret[o].kind = "batch" /\ Len(ret[o].val) = 2
           /\ delivered = <<ret[c].val>> \o ret[o].val
           /\ ret[o].val[1] # ret[o].val[2]

\* ------------------------------------------------------------------------
\* C30: after close() has returned, no line is ever appended to the buffer
\* again, and a pop_one / drain_all that is waiting or is started on an
\* empty buffer is not cancelled but ends by raising Timeout.
\* ------------------------------------------------------------------------
\* close() has returned: self._alive = False is its last statement
C30_Closed == ~alive
C30_InFlight(c) == pc[c] # "idle"

C30_AfterClose ==
    /\ [][C30_Closed =>
            \E k \in 0..Len(read_buffer) :
                read_buffer' = SubSeq(read_buffer, k + 1, Len(read_buffer))]_vars
    /\ [][\A c \in Callers :
            (C30_Closed /\ read_buffer = <<>> /\ C30_InFlight(c) /\ ~C30_InFlight(c)') =>
                ret'[c] = [kind |-> "timeout"]]_vars
    /\ (C30_Closed /\ read_buffer = <<>> /\ C30_InFlight("c1"))
           ~> (~C30_InFlight("c1") /\ ret["c1"] = [kind |-> "timeout"])

\* close() has returned while a receive() waits on the empty buffer
C30_Witness ==
    /\ C30_Closed /\ mpc = "idle"
    /\ pc["c1"] = "waiting"
    /\ read_buffer = <<>>
    /\ emitted # <<>>

\* ------------------------------------------------------------------------
\* C31: the stop flag is examined only at the top of the outer loop of
\* _read_loop: with the flag set while a burst is in progress, every line
\* still waiting is read, classified and appended, the burst ends only when
\* nothing is waiting, the notification after the burst is issued, and only
\* then, from the top of the loop, does the reader exit (and it does exit).
\* ------------------------------------------------------------------------
C31_Stopping == read_done /\ InBurst

C31_StopOnlyAtTop ==
    /\ [][(rpc' = "exit" /\ rpc # "exit") =>
            (rpc = "top" /\ read_done /\ lock # "reader" /\ burst = <<>>)]_vars
    /\ [][(C31_Stopping /\ rpc = "classify" /\ rpc' # rpc) =>
            /\ rpc' = "more"
            /\ read_buffer' = BufAppend(read_buffer, keep_untagged, Decode(rline))]_vars
    /\ [][(C31_Stopping /\ rpc = "more" /\ rpc' # rpc) =>
            IF rx # <<>>
            THEN rpc' = "classify" /\ rline' = Head(rx) /\ rx' = Tail(rx)
            ELSE rpc' = "notify"]_vars
    /\ [][(C31_Stopping /\ rpc = "notify" /\ rpc' # rpc) =>
            /\ rpc' = "top"
            /\ (read_buffer # <<>> /\ waiters # <<>>) => Head(waiters) \in signaled']_vars
    /\ C31_Stopping ~> (rpc = "exit")

\* the flag is set, a burst of two lines is complete and its notification
\* is about to be issued to the waiting caller
C31_Witness ==
    /\ read_done /\ mpc = "join"
    /\ rpc = "notify"
    /\ Len(burst) >= 2
    /\ waiters = <<"c1">>

\* ------------------------------------------------------------------------
\* C32: at the end of a burst the reader calls notify() if and only if the
\* burst appended at least one line to the buffer (a burst of discarded
\* lines only causes no wake-up); a read that returns nothing causes none.
\* ------------------------------------------------------------------------
\* the reader leaves the `with` block at the end of a burst
C32_BurstEnds == rpc = "notify" /\ rpc' = "top"

C32_WakeIffAppended ==
    /\ [][C32_BurstEnds => (NotifyCalled(read_buffer) <=> burst # <<>>)]_vars
    /\ [][(rpc = "readline" /\ rpc' = "top") => UNCHANGED <<waiters, signaled>>]_vars

\* what does hold: a burst that appended is followed by notify(), and so is
\* any burst that leaves the buffer non-empty; an empty read never is
C32_WakeIffBufferNonEmpty ==
    /\ [][C32_BurstEnds =>
            /\ burst # <<>> => NotifyCalled(read_buffer)
            /\ NotifyCalled(read_buffer) <=> read_buffer # <<>>
            /\ (NotifyCalled(read_buffer) /\ waiters # <<>>) =>
                    (Head(waiters) \in signaled' /\ waiters' = Tail(waiters))
            /\ ~NotifyCalled(read_buffer) => UNCHANGED <<waiters, signaled>>]_vars
    /\ [][(rpc = "readline" /\ rpc' = "top") => UNCHANGED <<waiters, signaled>>]_vars

\* ------------------------------------------------------------------------
\* C33: the reader appends to the buffer and calls notify() only while it
\* holds the lock under which receive() tests the buffer and starts to
\* wait, so no wake-up is missed: a single caller that found the buffer
\* empty and waits is woken by the next burst that appends a line before
\* its timeout expires, and then returns that data.
\* ------------------------------------------------------------------------
\* the caller is in wait() and its timeout has not expired
C33_Waits(c) == pc[c] = "waiting" /\ c \notin signaled
\* the caller was woken by notify() and has not yet returned
C33_Woken(c) == (pc[c] = "waiting" /\ c \in signaled) \/ (pc[c] \in {"reacq", "check"} /\ gotit[c])

C33_NoMissedWakeup ==
    /\ [][(Len(read_buffer') > Len(read_buffer) \/ ~(signaled' \subseteq signaled))
             => (lock = "reader" /\ InBurst)]_vars
    /\ [][\A c \in Callers :
            (pc[c] = "check" /\ pc'[c] # "check") =>
                (lock = c /\ (pc'[c] = "waiting" <=> read_buffer = <<>>))]_vars
    /\ [](C33_Waits("c1") => (read_buffer = <<>> \/ lock = "reader"))
    /\ [](C33_Woken("c1") => read_buffer # <<>>)
    /\ C33_Woken("c1") ~> (pc["c1"] = "idle" /\ ret["c1"].kind \in {"line", "batch"})

\* the caller waited, was woken by a burst and returned the line
C33_Witness ==
    /\ pc["c1"] = "idle"
    /\ gotit["c1"]
    /\ ret["c1"] = [kind |-> "line", val |-> <<"O", "K">>]
    /\ read_buffer = <<>>

\* ------------------------------------------------------------------------
\* C34: the payload returned or the error raised by _send_command for a
\* command is derived from the reply the module emitted for that same
\* command, never from the reply to an earlier command, also after an
\* earlier call ended with Timeout and its reply arrived late.  The module
\* answers the commands in the order it received them, so the k-th reply
\* handed to the driver answers the k-th command written.
\* ------------------------------------------------------------------------
\* the module's replies among the lines handed to the driver so far
C34_RepliesTaken ==
    Cardinality({i \in 1..Len(delivered) :
                    \E r \in Replies(dialect) : delivered[i] = Decode(r)})

\* _send_command ends on the line it has just popped
C34_Decides ==
    /\ ResponseStep
    /\ Response(dialect, ret[ProtoCaller].val).kind # "skip"

C34_ReplyOfSameCommand ==
    [][C34_Decides => C34_RepliesTaken = written]_vars

\* ------------------------------------------------------------------------
\* C35: while the buffer is non-empty and no burst is in progress no caller
\* stays blocked in its wait until the timeout: when the callers inside
\* receive(single=True) are k and the buffer holds at least k lines, the
\* timed wait of none of them expires (each obtains a line, none raises
\* Timeout).
\* ------------------------------------------------------------------------
\* the callers inside receive()
C35_Inside == {c \in Callers : pc[c] # "idle"}

\* the timed wait of c expires in this step
C35_Expires(c) == pc[c] = "waiting" /\ pc'[c] = "reacq" /\ ~gotit'[c]

C35_NoTimeoutOverData ==
    [][\A c \in Callers :
          (C35_Expires(c) /\ ~InBurst /\ rpc # "lock" /\ \A o \in C35_Inside : single[o])
              => Len(read_buffer) < Cardinality(C35_Inside)]_vars

\* ------------------------------------------------------------------------
\* C36: Dialect A _process_events records every received-data event of the
\* drained batch before it raises for a failing event: when the batch holds
\* received-data events and an event with a failure status, in any order,
\* the call raises Rak811EventError and the downlink list nevertheless
\* receives the records of all the received-data events, in batch order.
\* ------------------------------------------------------------------------
C36_DataLines(batch) == SelectSeq(batch, C20_IsData)

C36_AllDownlinksBeforeRaiseA ==
    (/\ fn = "process_events" /\ dialect = "A" /\ arg.batches # <<>>
     /\ \A i \in 1..Len(arg.batches[1]) : IsEventLine(arg.batches[1][i])
     /\ \E i \in 1..Len(arg.batches[1]) : C20_IsFailure(arg.batches[1][i])) =>
        /\ out.kind = "event_error"
        /\ Recs = [i \in 1..Len(C36_DataLines(arg.batches[1])) |->
                          C21_Expected(C36_DataLines(arg.batches[1])[i])]

\* What holds: the same when every received-data event of the batch is
\* complete.
C36_AllCompleteDownlinksBeforeRaiseA ==
    (/\ fn = "process_events" /\ dialect = "A" /\ arg.batches # <<>>
     /\ \A i \in 1..Len(arg.batches[1]) :
            IsEventLine(arg.batches[1][i]) /\ C20_Complete(arg.batches[1][i])
     /\ \E i \in 1..Len(arg.batches[1]) : C20_IsFailure(arg.batches[1][i])) =>
        /\ out.kind = "event_error"
        /\ Recs = [i \in 1..Len(C36_DataLines(arg.batches[1])) |->
                          C21_Expected(C36_DataLines(arg.batches[1])[i])]

\* ------------------------------------------------------------------------
\* C37: Dialect B _process_events loses no valid event: every line of the
\* drained batch that matches the event grammar results in a Downlink
\* Record, also when another line of the batch does not match and the call
\* raises the Invalid-Event error.
\* ------------------------------------------------------------------------
C37_Valid(batch) == SelectSeq(batch, C22_Matches)

C37_NoValidEventLostB ==
    (/\ fn = "process_events" /\ dialect = "B" /\ arg.batches # <<>>
     /\ \A i \in 1..Len(arg.batches[1]) : C22_Matches(arg.batches[1][i]) => C22_HasItsData(arg.batches[1][i])) =>
        Recs = [i \in 1..Len(C37_Valid(arg.batches[1])) |-> C22_Expected(C37_Valid(arg.batches[1])[i])]

\* what does hold: the records are those of the valid events that stand
\* before the first line that does not match
C37_ValidEventsBeforeFirstBadB ==
    (/\ fn = "process_events" /\ dialect = "B" /\ arg.batches # <<>>
     /\ \A i \in 1..Len(arg.batches[1]) : C22_Matches(arg.batches[1][i]) => C22_HasItsData(arg.batches[1][i])) =>
        LET n == IF \E i \in 1..Len(arg.batches[1]) : ~C22_Matches(arg.batches[1][i])
                 THEN C23_FirstBad(arg.batches[1]) - 1
                 ELSE Len(arg.batches[1])
        IN  Recs = [i \in 1..n |-> C22_Expected(arg.batches[1][i])]

\* ------------------------------------------------------------------------
\* C38: in Dialect B _send_command(command, timeout) every wait for a line,
\* the waits that follow skipped lines included, is bounded by the timeout
\* the caller supplied: the extended event timeout for join and send, the
\* response timeout for the other commands.
\* ------------------------------------------------------------------------
C38_Supplied ==
    IF fn \in {"join", "send"} THEN Seconds(EVENT_TIMEOUT) ELSE Seconds(RESPONSE_TIMEOUT)

\* the receive() calls _send_command made: one per line popped, and one
\* more when the last one raised Timeout, none when the port refused the
\* command
C38_Receives ==
    IF out = Uncaught("PortNotOpenError") THEN 0
    ELSE Len(arg.lines) + IF arg.lines # <<>> /\ IsResponseLineB(arg.lines[Len(arg.lines)])
                          THEN 0 ELSE 1

C38_EveryWaitUsesCallerTimeoutB ==
    (dialect = "B" /\ fn \in {"version", "run", "join", "send"}) =>
        /\ Len(waits) = C38_Receives
        /\ \A i \in 1..Len(waits) : waits[i] = C38_Supplied

\* what does hold: the first wait uses the caller's timeout, every wait
\* after a skipped line the response timeout
C38_FirstWaitUsesCallerTimeoutB ==
    (dialect = "B" /\ fn \in {"version", "run", "join", "send"}) =>
        /\ Len(waits) = C38_Receives
        /\ waits # <<>> => waits[1] = C38_Supplied
        /\ \A i \in 2..Len(waits) : waits[i] = Seconds(RESPONSE_TIMEOUT)

\* ------------------------------------------------------------------------
\* C39: close() terminates: once close() has been called, with every
\* readline() returning within the port timeout and the transport
\* eventually reporting no bytes waiting, the reader exits, the join
\* completes, the transport is closed and close() returns; it does not wait
\* for a foreground caller blocked in receive().
\* ------------------------------------------------------------------------
\* close() has returned after stopping the reader and closing the transport
C39_Returned ==
    /\ mpc = "idle" /\ ~alive
    /\ rpc = "exit" /\ joins = 1 /\ port_closes = 1

C39_CloseTerminates ==
    /\ (closeCalls >= 1) ~> C39_Returned
    /\ [](mpc \in {"close", "flag"} => rpc = "exit")
    /\ [][(mpc # "idle" /\ mpc' # mpc) => UNCHANGED <<pc, waiters, signaled, lock>>]_vars

\* close() has returned while the caller is still blocked in its wait
C39_Witness ==
    /\ C39_Returned
    /\ pc["c1"] = "waiting"
    /\ waiters = <<"c1">>
    /\ "c1" \notin signaled

====
